---- MODULE Spec2Model ----
(***************************************************************************)
(* Pipeline Manager / Worker pool / retry orchestration of the             *)
(* concurrent-data-pipeline repository (package pipeline, package metrics).*)
(*                                                                         *)
(* Goroutines are the processes of the model: the callers of the Manager   *)
(* API, the W worker goroutines, the resultHandler and metricsHandler      *)
(* goroutines, the detached retry goroutines, and the goroutine that       *)
(* cancels the context handed to Start.  Channel operations and selects    *)
(* are the atomic steps.  A call of SubmitJob is one step taken at the     *)
(* moment its select resolves: the outcomes offered are the cases of the   *)
(* select that are ready in that state (Go picks among ready cases at      *)
(* random), and the 5 s timer is ready only while no other case is.        *)
(* SubmitJob's send and its IncrementJobsSubmitted are one step.  Time is  *)
(* not measured: time.Sleep and the timers elapse at any moment.           *)
(*                                                                         *)
(* A runtime panic ends the process: `panicked` names it and no goroutine  *)
(* takes a step afterwards.  Calls of the sink (S3) and of the notifier    *)
(* (Kafka) return without touching the pipeline's state; successWrites and *)
(* failureWrites count the calls of UploadJSON, which all succeed, and     *)
(* `sink` is what the bucket then holds.                                   *)
(*                                                                         *)
(* The specifications share the actions:                                   *)
(*   Spec     the whole life cycle: Start, Stop, cancellation, restart;    *)
(*   FairSpec Spec under the fairness of the Go scheduler;                 *)
(*   RunSpec  normal operation (no Stop, no cancellation) with enough      *)
(*            submissions to fill the job queue;                           *)
(*   BackpressureSpec  normal operation, the callers of SubmitMessage      *)
(*            watched while they wait in SubmitJob's select;               *)
(*   PoolSpec normal operation of several workers;                         *)
(*   RetryFairSpec  normal operation with the workers run fairly and the   *)
(*            retry delays left free;                                      *)
(*   SinkSpec normal operation over the hours of the wall clock, the       *)
(*            objects of the bucket watched.                               *)
(***************************************************************************)
EXTENDS Integers, Sequences, FiniteSets

\* ------------------------------------------------------------------ bounds
\* Spec and FairSpec: the whole life cycle (Start, Stop, the cancellation of
\* the context) around a short run.
MaxWorkers == 1          \* Config.Workers is drawn from 1..MaxWorkers
MaxSubmits == 1          \* SubmitMessage calls made in one run
\* RunSpec: normal operation (no Stop, no cancellation) under load.
MaxRunWorkers == 1       \* Config.Workers is drawn from 1..MaxRunWorkers
MaxRunSubmits == 3       \* SubmitMessage calls made in one run
\* All specifications.
MaxBatchSize == 1        \* Config.BatchSize is drawn from 1..MaxBatchSize
MaxBatch == 1            \* the longest slice handed to SubmitBatch
MaxConfigRetries == 1    \* Config.MaxRetries is drawn from 0..MaxConfigRetries
\* BackpressureSpec: callers watched while they wait in SubmitJob.
MaxBackWorkers == 1      \* Config.Workers is drawn from 1..MaxBackWorkers
MaxBackSubmits == 3      \* SubmitMessage calls made in one run
\* PoolSpec: normal operation of a pool of workers.
MaxPoolWorkers == 2      \* Config.Workers is drawn from 1..MaxPoolWorkers
MaxPoolSubmits == 2      \* SubmitMessage calls made in one run
\* RetryFairSpec: the workers at work while retries are waiting.
MaxRetryWorkers == 1     \* Config.Workers is drawn from 1..MaxRetryWorkers
MaxRetrySubmits == 2     \* SubmitMessage calls made in one run
\* SinkSpec: the objects of the bucket over the hours.
MaxSinkWorkers == 1      \* Config.Workers is drawn from 1..MaxSinkWorkers
MaxSinkSubmits == 2      \* SubmitMessage calls made in one run
MaxHour == 1             \* the wall clock runs over the hours 0..MaxHour
\* IoSpec: a bucket and a broker that can fail.
MaxIoWorkers == 1        \* Config.Workers is drawn from 1..MaxIoWorkers
MaxIoSubmits == 1        \* SubmitMessage calls made in one run
\* BackoffSpec: the retry goroutines against the clock.
MaxBackoffWorkers == 1   \* Config.Workers is drawn from 1..MaxBackoffWorkers
MaxBackoffSubmits == 1   \* SubmitMessage calls made in one run
MaxBackoffNow == 3       \* the clock runs over the seconds 0..MaxBackoffNow
\* CollectorSpec: goroutines calling the methods of a Collector.
MaxCallers == 2          \* goroutines calling the Collector
MaxCollectorCalls == 3   \* method calls made in one run
MaxDuration == 1         \* RecordProcessingDuration is given 1..MaxDuration
MaxNow == 1              \* the clock runs over the seconds 0..MaxNow
\* DerivedSpec: a Collector written, reset and read for its derived metrics.
MaxDerivedCallers == 1   \* goroutines calling the Collector
MaxDerivedCalls == 3     \* method calls made in one run
\* DispatchSpec: messages of every source kind and every class of data.
MaxDispatchWorkers == 1  \* Config.Workers is drawn from 1..MaxDispatchWorkers
MaxDispatchSubmits == 1  \* SubmitMessage calls made in one run
\* SubmitRaceSpec: a submitter watched between its send and its increment.
MaxRaceWorkers == 1      \* Config.Workers is drawn from 1..MaxRaceWorkers
MaxRaceSubmits == 2      \* SubmitMessage calls made in one run
\* SliceSpec: one SubmitBatch call on a slice of messages.
MaxSliceWorkers == 1     \* Config.Workers is drawn from 1..MaxSliceWorkers
MaxSliceLen == 4         \* length of the slice given to SubmitBatch
\* PreStartSpec: every submission is made before Start.
MaxPreWorkers == 1       \* Config.Workers is drawn from 1..MaxPreWorkers
MaxPreSubmits == 2       \* SubmitMessage calls made in one run

\* ------------------------------------------------------- program constants
DefaultMaxRetries == 3

Max(a, b) == IF a > b THEN a ELSE b
WorkerIds ==
    1..Max(Max(MaxWorkers, MaxRunWorkers),
           Max(Max(MaxBackWorkers, MaxPoolWorkers),
               Max(MaxRetryWorkers, MaxSinkWorkers)))
JobIds ==
    1..Max(Max(Max(MaxSubmits, MaxRunSubmits), Max(MaxSliceLen, MaxPreSubmits)),
           Max(Max(MaxBackSubmits, MaxPoolSubmits),
               Max(MaxRetrySubmits, MaxSinkSubmits)))

\* Message{ID, Source, Data}: Data is kept as the class of its bytes that the
\* transforms distinguish: a JSON object, bytes that start with "{" but are
\* not JSON, a JSON value that is no object, and text that is not JSON.
Sources == {"kafka", "file", "api", "other"}
DataClasses == {"object", "brokenObject", "scalar", "text"}
Message(id, src, data) == [id |-> id, src |-> src, data |-> data]

\* The messages the callers of the model submit.
Messages ==
    { Message(1, "kafka", "object"), Message(2, "kafka", "brokenObject") }

\* The messages submitted where the bucket is watched: one MessageID twice
\* over, a second MessageID, and a message that fails on every attempt.
SinkMessages ==
    { Message(1, "file", "text"), Message(1, "kafka", "brokenObject"),
      Message(2, "file", "text") }

\* A message of every source kind (one unrecognized) with every class of data.
AllMessages == {Message(1, src, data) : src \in Sources, data \in DataClasses}

\* The slice of messages of one SubmitBatch call: message IDs in slice
\* order, failing Kafka records alternating with file lines.
BatchSlice ==
    [i \in 1..MaxSliceLen |->
        IF i % 2 = 1 THEN Message(i, "kafka", "brokenObject")
        ELSE Message(i, "file", "text")]

NoJob == [id |-> 0, msg |-> Message(0, "other", "text"), attempt |-> 0]
Job(id, msg, attempt) == [id |-> id, msg |-> msg, attempt |-> attempt]

VARIABLES
    config,            \* m.config, after NewManager: Workers, BatchSize, MaxRetries
    callsLeft,         \* SubmitMessage calls the callers still make
    started,           \* m.started
    mctxDone,          \* m.ctx is cancelled (m.cancel was called)
    ctxDone,           \* the context handed to Start is cancelled
    jobQueue,          \* the jobs buffered in m.jobQueue, oldest first
    jobQueueClosed,    \* m.jobQueue is closed
    resultQueueClosed, \* m.resultQueue is closed (nothing is ever sent on it)
    workers,           \* worker goroutine -> [pc, job, ok]
    stopPc,            \* where the caller inside Stop is (Stop holds m.mu)
    stopIdx,           \* the worker whose quitChan Stop is sending on
    wg,                \* m.wg counter
    resultHandlerPc,   \* resultHandler goroutine
    metricsHandlerPc,  \* metricsHandler goroutine
    retries,           \* retry goroutines not yet through SubmitJob: their retryJob
    metrics,           \* the Collector's counters
    panicked,          \* "none", or the runtime panic that ended the process
    nextJob,           \* SubmitMessage calls made so far + 1 (the job ID clock)
    batchLeft,         \* messages SubmitBatch has still to submit
    batchDeclined,     \* messages the running/last SubmitBatch failed to submit
    batchRet,          \* what the last SubmitBatch returned
    lastSubmit,        \* the last direct SubmitMessage call: result and setting
    accepted,          \* job IDs enqueued by SubmitMessage (directly or in a batch)
    retriesEnqueued,   \* retry jobs enqueued by SubmitJob
    retriesDropped,    \* retry jobs whose SubmitJob returned an error
    attemptLog,        \* job ID -> the jobs processMessage was run on, in order
    successWrites,     \* job ID -> success objects written to the sink
    failureWrites,     \* job ID -> error envelopes written to the sink
    failedAttempt,     \* job ID -> Attempt of the job whose envelope was written
    atStop,            \* what the last Stop found on entry: a worker inside
                       \* processJob, the context of Start cancelled
    pending,           \* the job of a SubmitMessage call waiting in SubmitJob's
                       \* select, or NoJob
    startRet,          \* what the last Start returned
    results,           \* job ID -> the ProcessingResults processJob built, in order
    dequeues,          \* job ID -> receives of a job of that ID from m.jobQueue
    hour,              \* the hour of the wall clock (time.Now() in the sink keys)
    sink,              \* the objects held by the bucket: key, writing job, message
    faults,            \* the bucket and the broker can fail a put or a send
    lastIO,            \* the last Upload and SendMessage: the outcomes of the
                       \* underlying calls, the calls made, the error returned
    notifications,     \* job ID -> SendMessage calls made, by status header
    now,               \* the wall clock, in seconds
    sleepFrom,         \* job ID -> when its retry goroutine went to sleep
    collector,         \* a Collector used on its own: all its fields
    collMu,            \* that Collector's c.mu: the writer and the readers in
    callers,           \* goroutine calling that Collector -> [pc, op, arg, ret]
    collCallsLeft,     \* calls those goroutines still make
    unlocked           \* accesses to Collector fields made without holding c.mu

vars ==
    << config, callsLeft, started, mctxDone, ctxDone, jobQueue, jobQueueClosed,
       resultQueueClosed, workers, stopPc, stopIdx, wg, resultHandlerPc,
       metricsHandlerPc, retries, metrics, panicked, nextJob, batchLeft,
       batchDeclined, batchRet, lastSubmit, accepted, retriesEnqueued,
       retriesDropped, attemptLog, successWrites, failureWrites,
       failedAttempt, atStop, pending, startRet, results, dequeues, hour,
       sink, faults, lastIO, notifications, now, sleepFrom, collector,
       collMu, callers, collCallsLeft, unlocked >>

\* The variables of the Collector used on its own.
collVars == << collector, collMu, callers, collCallsLeft, unlocked >>

\* The variables of the pipeline, which the methods of the Collector used on
\* its own leave alone.
pipeVars ==
    << config, callsLeft, started, mctxDone, ctxDone, jobQueue, jobQueueClosed,
       resultQueueClosed, workers, stopPc, stopIdx, wg, resultHandlerPc,
       metricsHandlerPc, retries, metrics, panicked, nextJob, batchLeft,
       batchDeclined, batchRet, lastSubmit, accepted, retriesEnqueued,
       retriesDropped, attemptLog, successWrites, failureWrites,
       failedAttempt, atStop, pending, startRet, results, dequeues, hour,
       sink, faults, lastIO, notifications, sleepFrom >>

\* ---------------------------------------------------------------- NewManager
NewManagerMaxRetries(cfg) == IF cfg = 0 THEN DefaultMaxRetries ELSE cfg

NewManagerConfig(nWorkers, batchSize, cfgRetries) ==
    [Workers |-> nWorkers, BatchSize |-> batchSize,
     MaxRetries |-> NewManagerMaxRetries(cfgRetries)]

\* A job queue made with room for one more job.
JobQueueCapPlusOne == config.BatchSize * 2 + 1

JobQueueCap == config.BatchSize * 2

Workers == 1..config.Workers

NewCollector ==
    [jobsSubmitted |-> 0, jobsSucceeded |-> 0, jobsFailed |-> 0,
     processedJobs |-> 0]

\* The goroutines that use a Collector on their own.
Callers == DOMAIN callers

IdleWorker(pc) == [pc |-> pc, job |-> NoJob, ok |-> FALSE]

\* A goroutine that is not inside a method of the Collector, and has called
\* none yet: ret is the last value a method returned to it, got that method.
IdleCaller ==
    [pc |-> "idle", op |-> "none", arg |-> 0, ret |-> "none", got |-> "none"]

\* The Collector NewCollector returns, with n goroutines that make `calls`
\* calls of its methods: both times are the time of construction, c.mu is free.
InitCollector(n, calls) ==
    /\ collector = [jobsSubmitted |-> 0, jobsSucceeded |-> 0, jobsFailed |-> 0,
                    totalProcessingTime |-> 0, processedJobs |-> 0,
                    startTime |-> now, lastResetTime |-> now]
    /\ collMu = [writer |-> 0, readers |-> {}]
    /\ callers = [g \in 1..n |-> IdleCaller]
    /\ collCallsLeft = calls
    /\ unlocked = {}

\* No Upload and no SendMessage has been made.
NoIO == [outcomes |-> << >>, calls |-> 0, err |-> FALSE]

\* The state NewManager returns, for a configuration of at most maxW workers
\* and callers that make `calls` SubmitMessage calls.  Workers and BatchSize
\* are positive; MaxRetries is 0 (left unset) or positive.
InitPipeline(maxW, calls) ==
    /\ config \in {NewManagerConfig(n, b, c) :
                      n \in 1..maxW, b \in 1..MaxBatchSize,
                      c \in 0..MaxConfigRetries}
    /\ callsLeft = calls
    /\ started = FALSE
    /\ mctxDone = FALSE
    /\ ctxDone = FALSE
    /\ jobQueue = << >>
    /\ jobQueueClosed = FALSE
    /\ resultQueueClosed = FALSE
    /\ workers = [w \in Workers |-> IdleWorker("none")]
    /\ stopPc = "idle"
    /\ stopIdx = 0
    /\ wg = 0
    /\ resultHandlerPc = "none"
    /\ metricsHandlerPc = "none"
    /\ retries = {}
    /\ metrics = NewCollector
    /\ panicked = "none"
    /\ nextJob = 1
    /\ batchLeft = 0
    /\ batchDeclined = 0
    /\ batchRet = "none"
    /\ lastSubmit = [ret |-> "none", shutdown |-> FALSE]
    /\ accepted = {}
    /\ retriesEnqueued = 0
    /\ retriesDropped = 0
    /\ attemptLog = [i \in JobIds |-> << >>]
    /\ successWrites = [i \in JobIds |-> 0]
    /\ failureWrites = [i \in JobIds |-> 0]
    /\ failedAttempt = [i \in JobIds |-> 0]
    /\ atStop = [inflight |-> FALSE, ctxDone |-> FALSE]
    /\ pending = NoJob
    /\ startRet = "none"
    /\ results = [i \in JobIds |-> << >>]
    /\ dequeues = [i \in JobIds |-> 0]
    /\ hour = 0
    /\ sink = {}
    /\ lastIO = [upload |-> NoIO, send |-> NoIO]
    /\ notifications = [i \in JobIds |-> [success |-> 0, failed |-> 0]]
    /\ now = 0
    /\ sleepFrom = [i \in JobIds |-> 0]

\* The pipeline with a bucket and a broker that never fail, and no goroutine
\* using a Collector of its own.
InitWith(maxW, calls) ==
    /\ InitPipeline(maxW, calls)
    /\ faults = FALSE
    /\ InitCollector(0, 0)

Init == InitWith(MaxWorkers, MaxSubmits)

InitRun == InitWith(MaxRunWorkers, MaxRunSubmits)

Alive == panicked = "none"

\* m.mu is held from the entry of Stop to its return; Start holds it for one step.
MuFree == stopPc \in {"idle", "returned"}

\* ------------------------------------------------------------ processMessage
StartsWithBrace(data) == data \in {"object", "brokenObject"}
ValidJSON(data) == data \in {"object", "scalar"}

\* json.Unmarshal into a map when the bytes start with "{", then json.Marshal
\* of a map holding the bytes as json.RawMessage, which rejects non-JSON bytes.
processKafkaMessage(msg) ==
    IF StartsWithBrace(msg.data) /\ msg.data # "object"
    THEN FALSE
    ELSE ValidJSON(msg.data)

processFileMessage(msg) == TRUE

processAPIMessage(msg) == msg.data = "object"

processGenericMessage(msg) == TRUE

\* A switch that sends the kinds it does not know to the API transform.
processMessageNoFallback(msg) ==
    CASE msg.src = "kafka" -> processKafkaMessage(msg)
      [] msg.src = "file" -> processFileMessage(msg)
      [] OTHER -> processAPIMessage(msg)

\* TRUE when processMessage returns a nil error.
processMessage(msg) ==
    CASE msg.src = "kafka" -> processKafkaMessage(msg)
      [] msg.src = "file" -> processFileMessage(msg)
      [] msg.src = "api" -> processAPIMessage(msg)
      [] OTHER -> processGenericMessage(msg)

\* ----------------------------------------------------------------- SubmitJob
\* The cases of SubmitJob's select that can be taken in the current state.
\* A send on a closed channel is a ready case that panics when it is chosen.
\* A select without the time.After case.
TimerNever == FALSE

\* case <-time.After(5 * time.Second): the timer fires on a select that has
\* had no other case ready.
TimerFires == ~jobQueueClosed /\ Len(jobQueue) >= JobQueueCap /\ ~mctxDone

SubmitOutcomes ==
    (IF ~jobQueueClosed /\ Len(jobQueue) < JobQueueCap THEN {"enqueued"} ELSE {})
    \cup (IF jobQueueClosed THEN {"panic"} ELSE {})
    \cup (IF mctxDone THEN {"shutdown"} ELSE {})
    \cup (IF TimerFires THEN {"timeout"} ELSE {})

\* SubmitJob with the increment placed after the select, whatever the case taken
\* short of the shutdown return.
SubmitCountTimeouts(o) == IF o \in {"enqueued", "timeout"} THEN 1 ELSE 0

\* The counter SubmitJob increments for outcome o.
SubmitCount(o) == IF o = "enqueued" THEN 1 ELSE 0

SubmitJob(job, o) ==
    /\ o \in SubmitOutcomes
    /\ jobQueue' = IF o = "enqueued" THEN Append(jobQueue, job) ELSE jobQueue
    /\ metrics' = [metrics EXCEPT !.jobsSubmitted = @ + SubmitCount(o)]
    /\ panicked' = IF o = "panic" THEN "send on closed channel" ELSE panicked

\* ------------------------------------------------------------- SubmitMessage
NewJob(msg) == Job(nextJob, msg, 1)

\* Stop has called m.cancel(), or the context the running workers select on
\* is cancelled.
ShutdownBegun == mctxDone \/ (started /\ ctxDone)

SubmitMessage(msg, o) ==
    /\ Alive
    /\ batchLeft = 0
    /\ pending = NoJob
    /\ callsLeft > 0
    /\ SubmitJob(NewJob(msg), o)
    /\ nextJob' = nextJob + 1
    /\ callsLeft' = callsLeft - 1
    /\ accepted' = IF o = "enqueued" THEN accepted \cup {nextJob} ELSE accepted
    /\ lastSubmit' = [ret |-> o, shutdown |-> ShutdownBegun]
    /\ UNCHANGED << config, collVars, now, faults, lastIO, notifications,
                    sleepFrom, pending, startRet, results, dequeues, hour, sink,
                    started, mctxDone, ctxDone, jobQueueClosed,
                    resultQueueClosed, workers, stopPc, stopIdx, wg,
                    resultHandlerPc, metricsHandlerPc, retries, batchLeft,
                    batchDeclined, batchRet, retriesEnqueued, retriesDropped,
                    attemptLog, successWrites, failureWrites, failedAttempt,
                    atStop >>

\* SubmitMessage in two steps, for the callers that are watched while they
\* wait: the call builds the job and enters SubmitJob's select ...
SubmitMessageCall(msg) ==
    /\ Alive
    /\ batchLeft = 0
    /\ pending = NoJob
    /\ callsLeft > 0
    /\ pending' = NewJob(msg)
    /\ nextJob' = nextJob + 1
    /\ callsLeft' = callsLeft - 1
    /\ UNCHANGED << config, collVars, now, faults, lastIO, notifications,
                    sleepFrom, startRet, results, dequeues, hour, sink, started,
                    mctxDone, ctxDone, jobQueue, jobQueueClosed,
                    resultQueueClosed, workers, stopPc, stopIdx, wg,
                    resultHandlerPc, metricsHandlerPc, retries, metrics,
                    panicked, batchLeft, batchDeclined, batchRet, lastSubmit,
                    accepted, retriesEnqueued, retriesDropped, attemptLog,
                    successWrites, failureWrites, failedAttempt, atStop >>

\* ... and the select resolves and SubmitMessage returns.
SubmitMessageReturn(o) ==
    /\ Alive
    /\ pending # NoJob
    /\ SubmitJob(pending, o)
    /\ pending' = NoJob
    /\ accepted' = IF o = "enqueued" THEN accepted \cup {pending.id} ELSE accepted
    /\ lastSubmit' = [ret |-> o, shutdown |-> ShutdownBegun]
    /\ UNCHANGED << config, collVars, now, faults, lastIO, notifications,
                    sleepFrom, startRet, results, dequeues, hour, sink, callsLeft,
                    started, mctxDone, ctxDone, jobQueueClosed,
                    resultQueueClosed, workers, stopPc, stopIdx, wg,
                    resultHandlerPc, metricsHandlerPc, retries, nextJob,
                    batchLeft, batchDeclined, batchRet, retriesEnqueued,
                    retriesDropped, attemptLog, successWrites, failureWrites,
                    failedAttempt, atStop >>

\* SubmitJob's send case in its two statements, for the submitters that are
\* watched between them.  The send of `case m.jobQueue <- job:` completes: the
\* job is in the queue, and the submitter has not yet run the case's body.
SubmitJobSend ==
    /\ Alive
    /\ pending # NoJob
    /\ pending.id \notin accepted
    /\ "enqueued" \in SubmitOutcomes
    /\ jobQueue' = Append(jobQueue, pending)
    /\ accepted' = accepted \cup {pending.id}
    /\ UNCHANGED << config, collVars, now, faults, lastIO, notifications,
                    sleepFrom, pending, startRet, results, dequeues, hour, sink,
                    callsLeft, started, mctxDone, ctxDone, jobQueueClosed,
                    resultQueueClosed, workers, stopPc, stopIdx, wg,
                    resultHandlerPc, metricsHandlerPc, retries, metrics,
                    panicked, nextJob, batchLeft, batchDeclined, batchRet,
                    lastSubmit, retriesEnqueued, retriesDropped, attemptLog,
                    successWrites, failureWrites, failedAttempt, atStop >>

\* The body of the send case: IncrementJobsSubmitted, and SubmitJob returns nil.
SubmitJobIncrement ==
    /\ Alive
    /\ pending # NoJob
    /\ pending.id \in accepted
    /\ metrics' = [metrics EXCEPT !.jobsSubmitted = @ + 1]
    /\ pending' = NoJob
    /\ lastSubmit' = [ret |-> "enqueued", shutdown |-> ShutdownBegun]
    /\ UNCHANGED << config, collVars, now, faults, lastIO, notifications,
                    sleepFrom, startRet, results, dequeues, hour, sink,
                    callsLeft, started, mctxDone, ctxDone, jobQueue,
                    jobQueueClosed, resultQueueClosed, workers, stopPc,
                    stopIdx, wg, resultHandlerPc, metricsHandlerPc, retries,
                    panicked, nextJob, batchLeft, batchDeclined, batchRet,
                    accepted, retriesEnqueued, retriesDropped, attemptLog,
                    successWrites, failureWrites, failedAttempt, atStop >>

\* --------------------------------------------------------------- SubmitBatch
\* The value SubmitBatch returns after a loop in which `declined` messages
\* were refused by SubmitMessage.
SubmitBatchReturn(declined) == "nil"

SubmitBatchCall(n) ==
    /\ Alive
    /\ batchLeft = 0
    /\ pending = NoJob
    /\ n <= callsLeft
    /\ batchLeft' = n
    /\ batchDeclined' = 0
    /\ batchRet' = IF n = 0 THEN SubmitBatchReturn(0) ELSE "none"
    /\ UNCHANGED << config, collVars, now, faults, lastIO, notifications,
                    sleepFrom, pending, startRet, results, dequeues, hour, sink,
                    callsLeft, started, mctxDone, ctxDone, jobQueue,
                    jobQueueClosed, resultQueueClosed, workers, stopPc,
                    stopIdx, wg, resultHandlerPc, metricsHandlerPc, retries,
                    metrics, panicked, nextJob, lastSubmit, accepted,
                    retriesEnqueued, retriesDropped, attemptLog,
                    successWrites, failureWrites, failedAttempt,
                    atStop >>

\* A loop that returns at the first message SubmitMessage declines.
SubmitBatchStepAbort(msg, o) ==
    /\ Alive
    /\ batchLeft > 0
    /\ SubmitJob(NewJob(msg), o)
    /\ nextJob' = nextJob + 1
    /\ callsLeft' = callsLeft - 1
    /\ accepted' = IF o = "enqueued" THEN accepted \cup {nextJob} ELSE accepted
    /\ batchLeft' = IF o = "enqueued" THEN batchLeft - 1 ELSE 0
    /\ batchDeclined' = batchDeclined + (IF o = "enqueued" THEN 0 ELSE 1)
    /\ batchRet' = IF batchLeft' = 0 /\ o # "panic"
                   THEN SubmitBatchReturn(batchDeclined')
                   ELSE "none"
    /\ UNCHANGED << config, collVars, now, faults, lastIO, notifications,
                    sleepFrom, pending, startRet, results, dequeues, hour, sink,
                    started, mctxDone, ctxDone, jobQueueClosed,
                    resultQueueClosed, workers, stopPc, stopIdx, wg,
                    resultHandlerPc, metricsHandlerPc, retries, lastSubmit,
                    retriesEnqueued, retriesDropped, attemptLog,
                    successWrites, failureWrites, failedAttempt,
                    atStop >>

\* One iteration of the loop: SubmitMessage on the next message of the slice;
\* the iteration that empties the slice goes on to the return.
SubmitBatchStep(msg, o) ==
    /\ Alive
    /\ batchLeft > 0
    /\ SubmitJob(NewJob(msg), o)
    /\ nextJob' = nextJob + 1
    /\ callsLeft' = callsLeft - 1
    /\ accepted' = IF o = "enqueued" THEN accepted \cup {nextJob} ELSE accepted
    /\ batchLeft' = batchLeft - 1
    /\ batchDeclined' = batchDeclined + (IF o = "enqueued" THEN 0 ELSE 1)
    /\ batchRet' = IF batchLeft = 1 /\ o # "panic"
                   THEN SubmitBatchReturn(batchDeclined')
                   ELSE "none"
    /\ UNCHANGED << config, collVars, now, faults, lastIO, notifications,
                    sleepFrom, pending, startRet, results, dequeues, hour, sink,
                    started, mctxDone, ctxDone, jobQueueClosed,
                    resultQueueClosed, workers, stopPc, stopIdx, wg,
                    resultHandlerPc, metricsHandlerPc, retries, lastSubmit,
                    retriesEnqueued, retriesDropped, attemptLog,
                    successWrites, failureWrites, failedAttempt,
                    atStop >>

\* -------------------------------------------------------------- Worker.Start
\* case job := <-w.jobChan.  A closed and drained channel yields a nil job,
\* and processJob dereferences it.
\* A receive that hands the head of the queue to the worker and leaves it in
\* the queue.
WorkerDequeuePeek(w) ==
    /\ Alive
    /\ w \in Workers
    /\ workers[w].pc = "select"
    /\ jobQueue # << >>
    /\ workers' = [workers EXCEPT ![w] =
           [pc |-> "processJob", job |-> Head(jobQueue), ok |-> FALSE]]
    /\ dequeues' = [dequeues EXCEPT ![Head(jobQueue).id] = @ + 1]
    /\ UNCHANGED << config, collVars, now, faults, lastIO, notifications,
                    sleepFrom, pending, startRet, results, hour, sink,
                    callsLeft, started, mctxDone, ctxDone, jobQueueClosed,
                    resultQueueClosed, stopPc, stopIdx, wg, resultHandlerPc,
                    metricsHandlerPc, retries, metrics, nextJob, batchLeft,
                    batchDeclined, batchRet, lastSubmit, accepted,
                    retriesEnqueued, retriesDropped, attemptLog,
                    successWrites, failureWrites, failedAttempt,
                    atStop, jobQueue, panicked >>

WorkerDequeue(w) ==
    /\ Alive
    /\ w \in Workers
    /\ workers[w].pc = "select"
    /\ \/ /\ jobQueue # << >>
          /\ workers' = [workers EXCEPT ![w] =
                 [pc |-> "processJob", job |-> Head(jobQueue), ok |-> FALSE]]
          /\ jobQueue' = Tail(jobQueue)
          /\ dequeues' = [dequeues EXCEPT ![Head(jobQueue).id] = @ + 1]
          /\ UNCHANGED panicked
       \/ /\ jobQueue = << >>
          /\ jobQueueClosed
          /\ panicked' = "nil job"
          /\ UNCHANGED << workers, jobQueue, dequeues >>
    /\ UNCHANGED << config, collVars, now, faults, lastIO, notifications,
                    sleepFrom, pending, startRet, results, hour, sink,
                    callsLeft, started, mctxDone, ctxDone, jobQueueClosed,
                    resultQueueClosed, stopPc, stopIdx, wg, resultHandlerPc,
                    metricsHandlerPc, retries, metrics, nextJob, batchLeft,
                    batchDeclined, batchRet, lastSubmit, accepted,
                    retriesEnqueued, retriesDropped, attemptLog,
                    successWrites, failureWrites, failedAttempt,
                    atStop >>

\* ------------------------------------------------------- Worker.handleResult
\* handleResult with <= for <.
RetriesRemainOffByOne(job) == job.attempt <= config.MaxRetries

RetriesRemain(job) == job.attempt < config.MaxRetries

RetryJob(job) == Job(job.id, job.msg, job.attempt + 1)

\* ------------------------------------------------------- Worker.processJob
\* result.Success = err == nil, with the assignment replaced by "= true".
ResultSuccessAlways(errIsNil) == TRUE

\* result.Success = err == nil
ResultSuccess(errIsNil) == errIsNil

\* The ProcessingResult processJob builds for job, processMessage having
\* returned a nil error or not.
ProcessingResult(job, errIsNil) ==
    [JobID |-> job.id, MessageID |-> job.msg.id,
     Success |-> ResultSuccess(errIsNil)]

\* ------------------------------------------------------------ the sink keys
\* The success key built from the job's ID.
SuccessKeyOfJob(result) == << "processed", hour, result.JobID >>

\* "processed/<yyyy/mm/dd/hh>/<MessageID>.json": the time layout has a fixed
\* width, so the key is the triple of namespace, hour and MessageID.
SuccessKey(result) == << "processed", hour, result.MessageID >>

\* The failure key built in the namespace of the success records.
FailureKeyInProcessed(result) == << "processed", hour, result.MessageID >>

\* "failed/<yyyy/mm/dd/hh>/<MessageID>.json"
FailureKey(result) == << "failed", hour, result.MessageID >>

\* S3Client.UploadJSON: the bucket holds one object per key and a put replaces
\* the object under its key.
UploadJSON(key, result) ==
    {obj \in sink : obj.key # key}
    \cup {[key |-> key, JobID |-> result.JobID, MessageID |-> result.MessageID]}

\* ------------------------------------------- Upload and SendMessage retries
\* The loops of Upload and SendMessage run for attempt = 0, 1, 2.
UploadAttempts == 3

SendAttempts == 3

\* What the bucket answers to the PutObject calls of one Upload, should they
\* all be made (TRUE: a nil error), and the broker to the sends of one
\* SendMessage.
PutOutcomes ==
    IF faults THEN [1..UploadAttempts -> BOOLEAN]
    ELSE {[i \in 1..UploadAttempts |-> TRUE]}

SendOutcomes ==
    IF faults THEN [1..SendAttempts -> BOOLEAN]
    ELSE {[i \in 1..SendAttempts |-> TRUE]}

\* The calls of one Upload or SendMessage: their outcomes in order, their
\* number, and whether an error was returned.
IOResult(outcomes, calls, err) ==
    [outcomes |-> SubSeq(outcomes, 1, calls), calls |-> calls, err |-> err]

\* An upload loop that goes through all its attempts whatever they return.
UploadLoopNoReturn(puts, attempt) ==
    IOResult(puts, UploadAttempts, \A i \in 1..UploadAttempts : ~puts[i])

\* Upload from its attempt numbered `attempt` on: PutObject, return nil if it
\* succeeded, else sleep and go round; an error after the last attempt.
RECURSIVE UploadLoop(_, _)
UploadLoop(puts, attempt) ==
    IF attempt >= UploadAttempts THEN IOResult(puts, attempt, TRUE)
    ELSE IF puts[attempt + 1] THEN IOResult(puts, attempt + 1, FALSE)
    ELSE UploadLoop(puts, attempt + 1)

Upload(puts) == UploadLoop(puts, 0)

\* Producer.SendMessage: the same loop around p.producer.SendMessage.
RECURSIVE SendLoop(_, _)
SendLoop(sends, attempt) ==
    IF attempt >= SendAttempts THEN IOResult(sends, attempt, TRUE)
    ELSE IF sends[attempt + 1] THEN IOResult(sends, attempt + 1, FALSE)
    ELSE SendLoop(sends, attempt + 1)

SendMessage(sends) == SendLoop(sends, 0)

\* The notification counts of a job after one more SendMessage with the
\* status header `status`.
Notify(counts, status) ==
    IF status = "success" THEN [counts EXCEPT !.success = @ + 1]
    ELSE [counts EXCEPT !.failed = @ + 1]

\* handleResult sleeping and resubmitting on the worker's own goroutine.
AfterRetryInline(retry) == IF retry THEN "retryWait" ELSE "updateMetrics"

\* Where the worker is once handleResult's branch is done: the retry branch
\* has only started a goroutine, and the worker goes on to updateMetrics.
AfterHandleResult(retry) == "updateMetrics"

\* processJob up to the end of handleResult's branch: processMessage, then the
\* success path, the spawn of the retry goroutine, or the failure path.
WorkerProcessJob(w) ==
    \E puts \in PutOutcomes, sends \in SendOutcomes :
    LET job == workers[w].job
        result == ProcessingResult(job, processMessage(job.msg))
        ok == result.Success
        retry == ~ok /\ RetriesRemain(job)
        terminal == ~ok /\ ~RetriesRemain(job)
        upload == Upload(puts)
        send == SendMessage(sends)
    IN  /\ Alive
        /\ w \in Workers
        /\ workers[w].pc = "processJob"
        /\ attemptLog' = [attemptLog EXCEPT ![job.id] = Append(@, job)]
        /\ results' = [results EXCEPT ![job.id] = Append(@, result)]
        /\ successWrites' = [successWrites EXCEPT ![job.id] =
               @ + (IF ok /\ ~upload.err THEN 1 ELSE 0)]
        /\ failureWrites' = [failureWrites EXCEPT ![job.id] =
               @ + (IF terminal /\ ~upload.err THEN 1 ELSE 0)]
        /\ failedAttempt' = [failedAttempt EXCEPT ![job.id] =
               IF terminal /\ ~upload.err THEN job.attempt ELSE @]
        /\ sink' = IF retry \/ upload.err THEN sink
                   ELSE IF ok THEN UploadJSON(SuccessKey(result), result)
                   ELSE UploadJSON(FailureKey(result), result)
        /\ lastIO' = IF retry THEN lastIO
                     ELSE [upload |-> upload, send |-> send]
        /\ notifications' = IF retry THEN notifications
               ELSE [notifications EXCEPT ![job.id] =
                        Notify(@, IF ok THEN "success" ELSE "failed")]
        /\ retries' = IF retry THEN retries \cup {RetryJob(job)} ELSE retries
        /\ sleepFrom' = IF retry THEN [sleepFrom EXCEPT ![job.id] = now]
                        ELSE sleepFrom
        /\ metrics' = [metrics EXCEPT
               !.jobsSucceeded = @ + (IF ok THEN 1 ELSE 0),
               !.jobsFailed = @ + (IF terminal THEN 1 ELSE 0)]
        /\ workers' = [workers EXCEPT ![w] =
               [pc |-> AfterHandleResult(retry), job |-> job, ok |-> ok]]
        /\ UNCHANGED << config, collVars, now, faults, pending, startRet,
                        dequeues, hour, callsLeft,
                        started, mctxDone, ctxDone, jobQueue,
                        jobQueueClosed, resultQueueClosed, stopPc, stopIdx,
                        wg, resultHandlerPc, metricsHandlerPc, panicked,
                        nextJob, batchLeft, batchDeclined, batchRet,
                        lastSubmit, accepted, retriesEnqueued,
                        retriesDropped, atStop >>

\* ------------------------------------------------------ Manager.updateMetrics
\* The last statement of handleResult; the worker is back at its select after it.
\* An updateMetrics that records the duration of terminal attempts only, and
\* not of the attempts that are retried.
WorkerUpdateMetricsTerminalOnly(w) ==
    /\ Alive
    /\ w \in Workers
    /\ workers[w].pc = "updateMetrics"
    /\ metrics' = [metrics EXCEPT
           !.processedJobs = @ + (IF workers[w].ok \/ ~RetriesRemain(workers[w].job)
                                  THEN 1 ELSE 0),
           !.jobsSucceeded = @ + (IF workers[w].ok THEN 1 ELSE 0),
           !.jobsFailed = @ + (IF workers[w].ok THEN 0 ELSE 1)]
    /\ workers' = [workers EXCEPT ![w] = IdleWorker("select")]
    /\ UNCHANGED << config, collVars, now, faults, lastIO, notifications,
                    sleepFrom, pending, startRet, results, dequeues, hour, sink,
                    callsLeft, started, mctxDone, ctxDone, jobQueue,
                    jobQueueClosed, resultQueueClosed, stopPc, stopIdx, wg,
                    resultHandlerPc, metricsHandlerPc, retries, panicked,
                    nextJob, batchLeft, batchDeclined, batchRet, lastSubmit,
                    accepted, retriesEnqueued, retriesDropped, attemptLog,
                    successWrites, failureWrites, failedAttempt,
                    atStop >>

WorkerUpdateMetrics(w) ==
    /\ Alive
    /\ w \in Workers
    /\ workers[w].pc = "updateMetrics"
    /\ metrics' = [metrics EXCEPT
           !.processedJobs = @ + 1,
           !.jobsSucceeded = @ + (IF workers[w].ok THEN 1 ELSE 0),
           !.jobsFailed = @ + (IF workers[w].ok THEN 0 ELSE 1)]
    /\ workers' = [workers EXCEPT ![w] = IdleWorker("select")]
    /\ UNCHANGED << config, collVars, now, faults, lastIO, notifications,
                    sleepFrom, pending, startRet, results, dequeues, hour, sink,
                    callsLeft, started, mctxDone, ctxDone, jobQueue,
                    jobQueueClosed, resultQueueClosed, stopPc, stopIdx, wg,
                    resultHandlerPc, metricsHandlerPc, retries, panicked,
                    nextJob, batchLeft, batchDeclined, batchRet, lastSubmit,
                    accepted, retriesEnqueued, retriesDropped, attemptLog,
                    successWrites, failureWrites, failedAttempt,
                    atStop >>

\* --------------------------------------------------- the retry goroutine
\* time.Sleep has elapsed and SubmitJob(retryJob) resolves; its error is dropped.
RetrySubmit(job, o) ==
    /\ Alive
    /\ job \in retries
    /\ SubmitJob(job, o)
    /\ retries' = retries \ {job}
    /\ retriesEnqueued' = retriesEnqueued + (IF o = "enqueued" THEN 1 ELSE 0)
    /\ retriesDropped' = retriesDropped +
           (IF o \in {"timeout", "shutdown"} THEN 1 ELSE 0)
    /\ UNCHANGED << config, collVars, now, faults, lastIO, notifications,
                    sleepFrom, pending, startRet, results, dequeues, hour, sink,
                    callsLeft, started, mctxDone, ctxDone, jobQueueClosed,
                    resultQueueClosed, workers, stopPc, stopIdx, wg,
                    resultHandlerPc, metricsHandlerPc, nextJob, batchLeft,
                    batchDeclined, batchRet, lastSubmit, accepted,
                    attemptLog, successWrites, failureWrites, failedAttempt,
                    atStop >>

\* ------------------------------------------------------------- Manager.Start
\* The check of m.started left out.
AlreadyStartedNever == FALSE

\* if m.started { return fmt.Errorf("manager already started") }
AlreadyStarted == started

\* Under m.mu.  A call on a started manager returns the "already started"
\* error and changes nothing; any other call starts Config.Workers workers and
\* the two handlers, and returns nil.
\* A Start that makes the job queue anew, as NewManager does.
StartFreshQueue ==
    /\ Alive
    /\ MuFree
    /\ IF AlreadyStarted
       THEN /\ startRet' = "already started"
            /\ UNCHANGED << started, workers, wg, resultHandlerPc,
                            metricsHandlerPc, stopPc, jobQueue >>
       ELSE /\ workers' = [w \in Workers |-> IdleWorker("select")]
            /\ wg' = wg + 2
            /\ resultHandlerPc' = "running"
            /\ metricsHandlerPc' = "running"
            /\ started' = TRUE
            /\ stopPc' = "idle"
            /\ startRet' = "nil"
            /\ jobQueue' = << >>
    /\ UNCHANGED << config, collVars, now, faults, lastIO, notifications,
                    sleepFrom, pending, results, dequeues, hour, sink, callsLeft,
                    mctxDone, ctxDone, jobQueueClosed,
                    resultQueueClosed, stopIdx, retries, metrics, panicked,
                    nextJob, batchLeft, batchDeclined, batchRet, lastSubmit,
                    accepted, retriesEnqueued, retriesDropped, attemptLog,
                    successWrites, failureWrites, failedAttempt,
                    atStop >>

Start ==
    /\ Alive
    /\ MuFree
    /\ IF AlreadyStarted
       THEN /\ startRet' = "already started"
            /\ UNCHANGED << started, workers, wg, resultHandlerPc,
                            metricsHandlerPc, stopPc >>
       ELSE /\ workers' = [w \in Workers |-> IdleWorker("select")]
            /\ wg' = wg + 2
            /\ resultHandlerPc' = "running"
            /\ metricsHandlerPc' = "running"
            /\ started' = TRUE
            /\ stopPc' = "idle"
            /\ startRet' = "nil"
    /\ UNCHANGED << config, collVars, now, faults, lastIO, notifications,
                    sleepFrom, pending, results, dequeues, hour, sink, callsLeft,
                    mctxDone, ctxDone, jobQueue, jobQueueClosed,
                    resultQueueClosed, stopIdx, retries, metrics, panicked,
                    nextJob, batchLeft, batchDeclined, batchRet, lastSubmit,
                    accepted, retriesEnqueued, retriesDropped, attemptLog,
                    successWrites, failureWrites, failedAttempt,
                    atStop >>

\* The goroutine of runProcess that cancels the context handed to Start.
CancelCtx ==
    /\ Alive
    /\ ~ctxDone
    /\ ctxDone' = TRUE
    /\ UNCHANGED << config, collVars, now, faults, lastIO, notifications,
                    sleepFrom, pending, startRet, results, dequeues, hour, sink,
                    callsLeft, started, mctxDone, jobQueue, jobQueueClosed,
                    resultQueueClosed, workers, stopPc, stopIdx, wg,
                    resultHandlerPc, metricsHandlerPc, retries, metrics,
                    panicked, nextJob, batchLeft, batchDeclined, batchRet,
                    lastSubmit, accepted, retriesEnqueued, retriesDropped,
                    attemptLog, successWrites, failureWrites, failedAttempt,
                    atStop >>

\* -------------------------------------------------------------- Manager.Stop
InProcessJob(w) == workers[w].pc \in {"processJob", "updateMetrics"}

\* Stop without its early return.
NotStartedNever == FALSE

\* if !m.started { return nil }
NotStarted == ~started

\* Entry of Stop, under m.mu: the early return of a manager that is not
\* started, or m.cancel() and on to worker.Stop() of the first worker.
StopCall ==
    /\ Alive
    /\ MuFree
    /\ IF NotStarted
       THEN /\ stopPc' = "returned"
            /\ atStop' = [inflight |-> FALSE, ctxDone |-> ctxDone]
            /\ UNCHANGED << mctxDone, stopIdx >>
       ELSE /\ mctxDone' = TRUE
            /\ stopPc' = "workers"
            /\ stopIdx' = 1
            /\ atStop' = [inflight |-> \E w \in Workers : InProcessJob(w),
                           ctxDone |-> ctxDone]
    /\ UNCHANGED << config, collVars, now, faults, lastIO, notifications,
                    sleepFrom, pending, startRet, results, dequeues, hour, sink,
                    callsLeft, started, ctxDone, jobQueue, jobQueueClosed,
                    resultQueueClosed, workers, wg, resultHandlerPc,
                    metricsHandlerPc, retries, metrics, panicked, nextJob,
                    batchLeft, batchDeclined, batchRet, lastSubmit, accepted,
                    retriesEnqueued, retriesDropped, attemptLog,
                    successWrites, failureWrites, failedAttempt >>

\* w.quitChan is unbuffered: Stop's send completes only when worker w takes
\* it, and a worker receives only at its select.
QuitReady(w) == workers[w].pc = "select"

\* Worker.Stop on a buffered quitChan: the send completes at once and the
\* worker reads the signal whenever it is next at its select.
WorkerQuitBuffered(w) ==
    /\ Alive
    /\ stopPc = "workers"
    /\ w \in Workers
    /\ stopIdx = w
    /\ stopIdx' = w + 1
    /\ stopPc' = IF w = config.Workers THEN "close" ELSE "workers"
    /\ workers' = IF workers[w].pc = "select"
                  THEN [workers EXCEPT ![w].pc = "exited"]
                  ELSE workers
    /\ UNCHANGED << config, collVars, now, faults, lastIO, notifications,
                    sleepFrom, pending, startRet, results, dequeues, hour, sink,
                    callsLeft, started, mctxDone, ctxDone, jobQueue,
                    jobQueueClosed, resultQueueClosed, wg, resultHandlerPc,
                    metricsHandlerPc, retries, metrics, panicked, nextJob,
                    batchLeft, batchDeclined, batchRet, lastSubmit, accepted,
                    retriesEnqueued, retriesDropped, attemptLog,
                    successWrites, failureWrites, failedAttempt, atStop >>

\* Worker.Stop meets case <-w.quitChan: the worker returns, Stop moves on.
WorkerQuit(w) ==
    /\ Alive
    /\ stopPc = "workers"
    /\ w \in Workers
    /\ stopIdx = w
    /\ QuitReady(w)
    /\ workers' = [workers EXCEPT ![w].pc = "exited"]
    /\ stopIdx' = w + 1
    /\ stopPc' = IF w = config.Workers THEN "close" ELSE "workers"
    /\ UNCHANGED << config, collVars, now, faults, lastIO, notifications,
                    sleepFrom, pending, startRet, results, dequeues, hour, sink,
                    callsLeft, started, mctxDone, ctxDone, jobQueue,
                    jobQueueClosed, resultQueueClosed, wg, resultHandlerPc,
                    metricsHandlerPc, retries, metrics, panicked, nextJob,
                    batchLeft, batchDeclined, batchRet, lastSubmit, accepted,
                    retriesEnqueued, retriesDropped, attemptLog,
                    successWrites, failureWrites, failedAttempt,
                    atStop >>

\* case <-ctx.Done() of the worker's select.
WorkerCtxDone(w) ==
    /\ Alive
    /\ w \in Workers
    /\ workers[w].pc = "select"
    /\ ctxDone
    /\ workers' = [workers EXCEPT ![w].pc = "exited"]
    /\ UNCHANGED << config, collVars, now, faults, lastIO, notifications,
                    sleepFrom, pending, startRet, results, dequeues, hour, sink,
                    callsLeft, started, mctxDone, ctxDone, jobQueue,
                    jobQueueClosed, resultQueueClosed, stopPc, stopIdx, wg,
                    resultHandlerPc, metricsHandlerPc, retries, metrics,
                    panicked, nextJob, batchLeft, batchDeclined, batchRet,
                    lastSubmit, accepted, retriesEnqueued, retriesDropped,
                    attemptLog, successWrites, failureWrites, failedAttempt,
                    atStop >>

\* close(m.jobQueue); close(m.resultQueue).  Closing a closed channel panics.
StopClose ==
    /\ Alive
    /\ stopPc = "close"
    /\ IF jobQueueClosed
       THEN /\ panicked' = "close of closed channel"
            /\ UNCHANGED << jobQueueClosed, resultQueueClosed, stopPc >>
       ELSE /\ jobQueueClosed' = TRUE
            /\ resultQueueClosed' = TRUE
            /\ stopPc' = "wait"
            /\ UNCHANGED panicked
    /\ UNCHANGED << config, collVars, now, faults, lastIO, notifications,
                    sleepFrom, pending, startRet, results, dequeues, hour, sink,
                    callsLeft, started, mctxDone, ctxDone, jobQueue, workers,
                    stopIdx, wg, resultHandlerPc, metricsHandlerPc, retries,
                    metrics, nextJob, batchLeft, batchDeclined, batchRet,
                    lastSubmit, accepted, retriesEnqueued, retriesDropped,
                    attemptLog, successWrites, failureWrites, failedAttempt,
                    atStop >>

\* m.wg.Wait() returns; m.started = false; return nil.
StopReturn ==
    /\ Alive
    /\ stopPc = "wait"
    /\ wg = 0
    /\ started' = FALSE
    /\ stopPc' = "returned"
    /\ UNCHANGED << config, collVars, now, faults, lastIO, notifications,
                    sleepFrom, pending, startRet, results, dequeues, hour, sink,
                    callsLeft, mctxDone, ctxDone, jobQueue, jobQueueClosed,
                    resultQueueClosed, workers, stopIdx, wg, resultHandlerPc,
                    metricsHandlerPc, retries, metrics, panicked, nextJob,
                    batchLeft, batchDeclined, batchRet, lastSubmit, accepted,
                    retriesEnqueued, retriesDropped, attemptLog,
                    successWrites, failureWrites, failedAttempt,
                    atStop >>

\* ---------------------------------------------------- Manager.resultHandler
\* case result := <-m.resultQueue: no goroutine sends on it, so the case is
\* ready only once the channel is closed, and then yields nil: the loop goes
\* round without doing anything.
ResultHandlerRecvNil ==
    /\ Alive
    /\ resultHandlerPc = "running"
    /\ resultQueueClosed
    /\ UNCHANGED vars

\* The context the handlers select on: the one handed to Start.
HandlerCtxDone == ctxDone

ResultHandlerExit ==
    /\ Alive
    /\ resultHandlerPc = "running"
    /\ HandlerCtxDone
    /\ resultHandlerPc' = "exited"
    /\ wg' = wg - 1
    /\ UNCHANGED << config, collVars, now, faults, lastIO, notifications,
                    sleepFrom, pending, startRet, results, dequeues, hour, sink,
                    callsLeft, started, mctxDone, ctxDone, jobQueue,
                    jobQueueClosed, resultQueueClosed, workers, stopPc,
                    stopIdx, metricsHandlerPc, retries, metrics, panicked,
                    nextJob, batchLeft, batchDeclined, batchRet, lastSubmit,
                    accepted, retriesEnqueued, retriesDropped, attemptLog,
                    successWrites, failureWrites, failedAttempt,
                    atStop >>

\* --------------------------------------------------- Manager.metricsHandler
\* case <-ticker.C: logMetrics reads the Collector and changes nothing.
MetricsHandlerTick ==
    /\ Alive
    /\ metricsHandlerPc = "running"
    /\ UNCHANGED vars

MetricsHandlerExit ==
    /\ Alive
    /\ metricsHandlerPc = "running"
    /\ HandlerCtxDone
    /\ metricsHandlerPc' = "exited"
    /\ wg' = wg - 1
    /\ UNCHANGED << config, collVars, now, faults, lastIO, notifications,
                    sleepFrom, pending, startRet, results, dequeues, hour, sink,
                    callsLeft, started, mctxDone, ctxDone, jobQueue,
                    jobQueueClosed, resultQueueClosed, workers, stopPc,
                    stopIdx, resultHandlerPc, retries, metrics, panicked,
                    nextJob, batchLeft, batchDeclined, batchRet, lastSubmit,
                    accepted, retriesEnqueued, retriesDropped, attemptLog,
                    successWrites, failureWrites, failedAttempt,
                    atStop >>

\* ------------------------------------------------------------ the wall clock
\* The hour of time.Now() moves on.
Tick ==
    /\ Alive
    /\ hour < MaxHour
    /\ hour' = hour + 1
    /\ UNCHANGED << config, collVars, now, faults, lastIO, notifications,
                    sleepFrom, pending, startRet, results, dequeues, sink,
                    callsLeft, started, mctxDone, ctxDone, jobQueue,
                    jobQueueClosed, resultQueueClosed, workers, stopPc,
                    stopIdx, wg, resultHandlerPc, metricsHandlerPc, retries,
                    metrics, panicked, nextJob, batchLeft, batchDeclined,
                    batchRet, lastSubmit, accepted, retriesEnqueued,
                    retriesDropped, attemptLog, successWrites, failureWrites,
                    failedAttempt, atStop >>

\* ------------------------------------------------------------ specifications
Outcomes == {"enqueued", "panic", "shutdown", "timeout"}

Next ==
    \/ \E msg \in Messages, o \in Outcomes : SubmitMessage(msg, o)
    \/ \E n \in 0..MaxBatch : SubmitBatchCall(n)
    \/ \E msg \in Messages, o \in Outcomes : SubmitBatchStep(msg, o)
    \/ \E w \in WorkerIds : WorkerDequeue(w)
    \/ \E w \in WorkerIds : WorkerProcessJob(w)
    \/ \E w \in WorkerIds : WorkerUpdateMetrics(w)
    \/ \E job \in retries, o \in Outcomes : RetrySubmit(job, o)
    \/ Start
    \/ CancelCtx
    \/ StopCall
    \/ \E w \in WorkerIds : WorkerQuit(w)
    \/ \E w \in WorkerIds : WorkerCtxDone(w)
    \/ StopClose
    \/ StopReturn
    \/ ResultHandlerRecvNil
    \/ ResultHandlerExit
    \/ MetricsHandlerTick
    \/ MetricsHandlerExit

Spec == Init /\ [][Next]_vars

\* The manager started, stopped and cancelled, with single submissions only.
NextLifecycle ==
    \/ \E msg \in Messages, o \in Outcomes : SubmitMessage(msg, o)
    \/ \E w \in WorkerIds : WorkerDequeue(w)
    \/ \E w \in WorkerIds : WorkerProcessJob(w)
    \/ \E w \in WorkerIds : WorkerUpdateMetrics(w)
    \/ \E job \in retries, o \in Outcomes : RetrySubmit(job, o)
    \/ Start
    \/ CancelCtx
    \/ StopCall
    \/ \E w \in WorkerIds : WorkerQuit(w)
    \/ \E w \in WorkerIds : WorkerCtxDone(w)
    \/ StopClose
    \/ StopReturn
    \/ ResultHandlerRecvNil
    \/ ResultHandlerExit
    \/ MetricsHandlerTick
    \/ MetricsHandlerExit

LifecycleSpec == Init /\ [][NextLifecycle]_vars

\* The Go scheduler runs every runnable goroutine, and a select that is
\* entered again and again with a case ready takes that case in the end.
\* The callers of the API and the signal that cancels the context are the
\* environment: nothing obliges them to act.
Fairness ==
    /\ \A w \in WorkerIds :
          /\ WF_vars(WorkerDequeue(w))
          /\ WF_vars(WorkerProcessJob(w))
          /\ WF_vars(WorkerUpdateMetrics(w))
          /\ SF_vars(WorkerQuit(w))
          /\ SF_vars(WorkerCtxDone(w))
    /\ WF_vars(\E job \in retries, o \in Outcomes : RetrySubmit(job, o))
    /\ WF_vars(StopClose)
    /\ WF_vars(StopReturn)
    /\ WF_vars(ResultHandlerExit)
    /\ WF_vars(MetricsHandlerExit)

FairSpec == Spec /\ Fairness

\* runProcess calls Start once, on the manager NewManager returned.
StartOnce == ~started /\ Start

\* Normal operation: the manager is started and fed, Stop is not called and
\* the context is not cancelled.
NextRun ==
    \/ \E msg \in Messages, o \in Outcomes : SubmitMessage(msg, o)
    \/ \E n \in 0..MaxBatch : SubmitBatchCall(n)
    \/ \E msg \in Messages, o \in Outcomes : SubmitBatchStep(msg, o)
    \/ \E w \in WorkerIds : WorkerDequeue(w)
    \/ \E w \in WorkerIds : WorkerProcessJob(w)
    \/ \E w \in WorkerIds : WorkerUpdateMetrics(w)
    \/ \E job \in retries, o \in Outcomes : RetrySubmit(job, o)
    \/ StartOnce
    \/ MetricsHandlerTick

RunSpec == InitRun /\ [][NextRun]_vars

\* Normal operation with the callers of SubmitMessage watched while they wait
\* in SubmitJob's select.
InitBack == InitWith(MaxBackWorkers, MaxBackSubmits)

NextBack ==
    \/ \E msg \in Messages : SubmitMessageCall(msg)
    \/ \E o \in Outcomes : SubmitMessageReturn(o)
    \/ \E w \in WorkerIds : WorkerDequeue(w)
    \/ \E w \in WorkerIds : WorkerProcessJob(w)
    \/ \E w \in WorkerIds : WorkerUpdateMetrics(w)
    \/ \E job \in retries, o \in Outcomes : RetrySubmit(job, o)
    \/ StartOnce
    \/ MetricsHandlerTick

\* A caller inside SubmitJob's select leaves it: a case that is ready is
\* taken, and the 5 s timer fires when none is.  Nothing is asked of the
\* workers or of the retry goroutines.
BackFairness == WF_vars(\E o \in Outcomes : SubmitMessageReturn(o))

BackpressureSpec == InitBack /\ [][NextBack]_vars /\ BackFairness

\* Normal operation of a pool of several workers.
InitPool == InitWith(MaxPoolWorkers, MaxPoolSubmits)

PoolSpec == InitPool /\ [][NextRun]_vars

\* Normal operation with the worker goroutines run by the scheduler; the
\* delay of a retry goroutine is as long as it likes, and the callers do as
\* they like.
InitRetry == InitWith(MaxRetryWorkers, MaxRetrySubmits)

RetryFairness ==
    \A w \in 1..MaxRetryWorkers :
        /\ WF_vars(WorkerDequeue(w))
        /\ WF_vars(WorkerProcessJob(w))
        /\ WF_vars(WorkerUpdateMetrics(w))

RetryFairSpec == InitRetry /\ [][NextRun]_vars /\ RetryFairness

\* Normal operation over the hours of the wall clock.
InitSink == InitWith(MaxSinkWorkers, MaxSinkSubmits)

NextSink ==
    \/ \E msg \in SinkMessages, o \in Outcomes : SubmitMessage(msg, o)
    \/ \E w \in WorkerIds : WorkerDequeue(w)
    \/ \E w \in WorkerIds : WorkerProcessJob(w)
    \/ \E w \in WorkerIds : WorkerUpdateMetrics(w)
    \/ \E job \in retries, o \in Outcomes : RetrySubmit(job, o)
    \/ StartOnce
    \/ Tick
    \/ MetricsHandlerTick

SinkSpec == InitSink /\ [][NextSink]_vars

\* Normal operation with a bucket and a broker that can fail any call.
InitIo ==
    /\ InitPipeline(MaxIoWorkers, MaxIoSubmits)
    /\ faults = TRUE
    /\ InitCollector(0, 0)

NextIo ==
    \/ \E msg \in Messages, o \in Outcomes : SubmitMessage(msg, o)
    \/ \E w \in WorkerIds : WorkerDequeue(w)
    \/ \E w \in WorkerIds : WorkerProcessJob(w)
    \/ \E w \in WorkerIds : WorkerUpdateMetrics(w)
    \/ \E job \in retries, o \in Outcomes : RetrySubmit(job, o)
    \/ StartOnce
    \/ MetricsHandlerTick

IoSpec == InitIo /\ [][NextIo]_vars

\* ------------------------------------------------- the retry against the clock
\* A sleep of one second whatever the attempt.
BackoffFixed(retryJob) == 1

\* time.Sleep(time.Duration(job.Attempt) * time.Second), in seconds: job is
\* the failed job, whose Attempt is one less than the retry job's.
Backoff(retryJob) == retryJob.attempt - 1

\* The retry goroutine with its sleep measured: SubmitJob(retryJob) is not
\* reached before the sleep, begun when the goroutine was started, is over.
RetrySubmitTimed(job, o) ==
    /\ job \in retries
    /\ now >= sleepFrom[job.id] + Backoff(job)
    /\ RetrySubmit(job, o)

\* A second of the wall clock goes by, up to second `last`.
Advance(last) ==
    /\ now < last
    /\ now' = now + 1
    /\ UNCHANGED << pipeVars, collVars >>

\* Normal operation with the sleeps of the retry goroutines measured.
InitBackoff == InitWith(MaxBackoffWorkers, MaxBackoffSubmits)

NextBackoff ==
    \/ \E msg \in Messages, o \in Outcomes : SubmitMessage(msg, o)
    \/ \E w \in WorkerIds : WorkerDequeue(w)
    \/ \E w \in WorkerIds : WorkerProcessJob(w)
    \/ \E w \in WorkerIds : WorkerUpdateMetrics(w)
    \/ \E job \in retries, o \in Outcomes : RetrySubmitTimed(job, o)
    \/ StartOnce
    \/ MetricsHandlerTick
    \/ Advance(MaxBackoffNow)

BackoffSpec == InitBackoff /\ [][NextBackoff]_vars

\* -------------------------------------------------------- Manager.GetMetrics
\* len(m.workers): Start makes the slice, one entry per worker, and nothing
\* shortens it afterwards.
LenWorkers ==
    IF \A w \in Workers : workers[w].pc = "none" THEN 0 ELSE config.Workers

\* The entries GetMetrics adds to the Collector's map; it takes no lock.
ManagerGetMetrics ==
    [queue_size |-> Len(jobQueue),
     active_workers |-> LenWorkers,
     started |-> started]

\* ================================================================ Collector
\* The methods that take c.mu.Lock and those that take c.mu.RLock.
WriterOps ==
    {"IncrementJobsSubmitted", "IncrementJobsSucceeded", "IncrementJobsFailed",
     "RecordProcessingDuration", "Reset"}

Getters ==
    {"GetJobsSubmitted", "GetJobsSucceeded", "GetJobsFailed",
     "GetTotalProcessingTime", "GetProcessedJobs", "GetUptime"}

ReaderOps ==
    Getters \cup {"GetAverageProcessingDuration", "GetSuccessRate",
                  "GetThroughput", "GetMetrics", "GetPeriodMetrics"}

\* The arguments a method is called with: a duration for
\* RecordProcessingDuration, none (0) for the others.
Args(op) == IF op = "RecordProcessingDuration" THEN 1..MaxDuration ELSE {0}

\* ------------------------------------------------------------ the arithmetic
\* A float64 is kept as an exact fraction; a zero denominator is NaN or Inf.
\* Rounding is left out.
Float(n) == [num |-> n, den |-> 1]

FloatDiv(a, b) == [num |-> a, den |-> b]

FloatTimes(x, k) == [num |-> x.num * k, den |-> x.den]

\* A time.Duration is an int64: the division truncates, and panics on zero.
Duration(n) == [value |-> n, panic |-> FALSE]

DurationDiv(a, b) ==
    IF b = 0 THEN [value |-> 0, panic |-> TRUE]
    ELSE [value |-> a \div b, panic |-> FALSE]

\* ------------------------------------------------------- the derived values
\* The success rate computed without looking at the total.
SuccessRateUnguarded(c) ==
    FloatTimes(FloatDiv(c.jobsSucceeded, c.jobsSucceeded + c.jobsFailed), 100)

\* GetSuccessRate, and successRate in GetMetrics.
SuccessRate(c) ==
    LET total == c.jobsSucceeded + c.jobsFailed
    IN  IF total = 0 THEN Float(0)
        ELSE FloatTimes(FloatDiv(c.jobsSucceeded, total), 100)

\* GetAverageProcessingDuration, and avgDuration in GetMetrics.
AverageProcessingDuration(c) ==
    IF c.processedJobs = 0 THEN Duration(0)
    ELSE DurationDiv(c.totalProcessingTime, c.processedJobs)

\* GetThroughput, and throughput in GetMetrics: uptime is time.Since(startTime).
Throughput(c) ==
    LET uptime == now - c.startTime
    IN  IF uptime = 0 THEN Float(0) ELSE FloatDiv(c.processedJobs, uptime)

\* The map GetMetrics returns.
GetMetrics(c) ==
    [jobs_submitted |-> c.jobsSubmitted,
     jobs_succeeded |-> c.jobsSucceeded,
     jobs_failed |-> c.jobsFailed,
     total_jobs |-> c.jobsSucceeded + c.jobsFailed,
     processed_jobs |-> c.processedJobs,
     success_rate_percent |-> SuccessRate(c),
     throughput_jobs_per_sec |-> Throughput(c),
     avg_processing_duration |-> AverageProcessingDuration(c),
     total_processing_time |-> c.totalProcessingTime,
     uptime |-> now - c.startTime,
     start_time |-> c.startTime]

\* What a method returns, read from the fields c.
Returned(op, c) ==
    CASE op = "GetJobsSubmitted" -> c.jobsSubmitted
      [] op = "GetJobsSucceeded" -> c.jobsSucceeded
      [] op = "GetJobsFailed" -> c.jobsFailed
      [] op = "GetTotalProcessingTime" -> c.totalProcessingTime
      [] op = "GetProcessedJobs" -> c.processedJobs
      [] op = "GetUptime" -> now - c.startTime
      [] op = "GetAverageProcessingDuration" -> AverageProcessingDuration(c)
      [] op = "GetSuccessRate" -> SuccessRate(c)
      [] op = "GetThroughput" -> Throughput(c)
      [] op \in {"GetMetrics", "GetPeriodMetrics"} -> GetMetrics(c)

\* Reset that also restarts the uptime.
ResetWithStartTime(c) ==
    [c EXCEPT !.jobsSubmitted = 0, !.jobsSucceeded = 0, !.jobsFailed = 0,
              !.totalProcessingTime = 0, !.processedJobs = 0,
              !.startTime = now, !.lastResetTime = now]

\* The fields after Reset.
Reset(c) ==
    [c EXCEPT !.jobsSubmitted = 0, !.jobsSucceeded = 0, !.jobsFailed = 0,
              !.totalProcessingTime = 0, !.processedJobs = 0,
              !.lastResetTime = now]

\* The fields after a method that writes.
Written(op, arg, c) ==
    CASE op = "IncrementJobsSubmitted" -> [c EXCEPT !.jobsSubmitted = @ + 1]
      [] op = "IncrementJobsSucceeded" -> [c EXCEPT !.jobsSucceeded = @ + 1]
      [] op = "IncrementJobsFailed" -> [c EXCEPT !.jobsFailed = @ + 1]
      [] op = "RecordProcessingDuration" ->
            [c EXCEPT !.totalProcessingTime = @ + arg,
                      !.processedJobs = @ + 1]
      [] op = "Reset" -> Reset(c)
      [] OTHER -> c

\* ------------------------------------------------------------------- c.mu
HoldsLock(g) == collMu.writer = g

HoldsRLock(g) == g \in collMu.readers

\* The record of an access to the fields by goroutine g inside method op, if
\* g does not hold c.mu as the access needs: Lock for a write, RLock for a read.
Unheld(g, op, kind) ==
    IF (kind = "write" /\ HoldsLock(g)) \/ (kind = "read" /\ HoldsRLock(g))
    THEN {}
    ELSE {[caller |-> g, op |-> op, kind |-> kind]}

\* ------------------------------------------------------------ the methods
\* Goroutine g calls a method; it is at the method's Lock or RLock.
CollCall(g, op, arg) ==
    /\ collCallsLeft > 0
    /\ g \in Callers
    /\ callers[g].pc = "idle"
    /\ callers' = [callers EXCEPT ![g].pc = "lock", ![g].op = op,
                                  ![g].arg = arg]
    /\ collCallsLeft' = collCallsLeft - 1
    /\ UNCHANGED << pipeVars, now, collector, collMu, unlocked >>

\* c.mu.Lock() returns when nobody holds the mutex; c.mu.RLock() when no
\* writer does.
CollLock(g) ==
    /\ g \in Callers
    /\ callers[g].pc = "lock"
    /\ collMu.writer = 0
    /\ IF callers[g].op \in WriterOps
       THEN /\ collMu.readers = {}
            /\ collMu' = [collMu EXCEPT !.writer = g]
       ELSE collMu' = [collMu EXCEPT !.readers = @ \cup {g}]
    /\ callers' = [callers EXCEPT ![g].pc = "body"]
    /\ UNCHANGED << pipeVars, now, collector, collCallsLeft, unlocked >>

\* The statements of the method between its lock and its unlock.
CollBody(g) ==
    LET op == callers[g].op
        kind == IF op \in WriterOps THEN "write" ELSE "read"
    IN  /\ g \in Callers
        /\ callers[g].pc = "body"
        /\ collector' = Written(op, callers[g].arg, collector)
        /\ callers' = [callers EXCEPT
               ![g].pc = "unlock",
               ![g].ret = IF op \in ReaderOps THEN Returned(op, collector)
                          ELSE @,
               ![g].got = IF op \in ReaderOps THEN op ELSE @]
        /\ unlocked' = unlocked \cup Unheld(g, op, kind)
        /\ UNCHANGED << pipeVars, now, collMu, collCallsLeft >>

\* The deferred Unlock or RUnlock, and the return; GetPeriodMetrics goes on
\* after its call of GetMetrics.
CollUnlock(g) ==
    /\ g \in Callers
    /\ callers[g].pc = "unlock"
    /\ collMu' = IF callers[g].op \in WriterOps
                 THEN [collMu EXCEPT !.writer = 0]
                 ELSE [collMu EXCEPT !.readers = @ \ {g}]
    /\ callers' = [callers EXCEPT ![g] =
           IF callers[g].op = "GetPeriodMetrics"
           THEN [@ EXCEPT !.pc = "periodRLock"]
           ELSE [@ EXCEPT !.pc = "idle", !.op = "none", !.arg = 0]]
    /\ UNCHANGED << pipeVars, now, collector, collCallsLeft, unlocked >>

\* ------------------------------------------------------- GetPeriodMetrics
\* c.mu.RLock()
PeriodRLock(g) ==
    /\ g \in Callers
    /\ callers[g].pc = "periodRLock"
    /\ collMu.writer = 0
    /\ collMu' = [collMu EXCEPT !.readers = @ \cup {g}]
    /\ callers' = [callers EXCEPT ![g].pc = "periodDuration"]
    /\ UNCHANGED << pipeVars, now, collector, collCallsLeft, unlocked >>

\* periodDuration := time.Since(c.lastResetTime)
PeriodDuration(g) ==
    /\ g \in Callers
    /\ callers[g].pc = "periodDuration"
    /\ callers' = [callers EXCEPT
           ![g].pc = "periodRUnlock",
           ![g].arg = now - collector.lastResetTime]
    /\ unlocked' = unlocked \cup Unheld(g, "GetPeriodMetrics", "read")
    /\ UNCHANGED << pipeVars, now, collector, collMu, collCallsLeft >>

\* c.mu.RUnlock()
PeriodRUnlock(g) ==
    /\ g \in Callers
    /\ callers[g].pc = "periodRUnlock"
    /\ collMu' = [collMu EXCEPT !.readers = @ \ {g}]
    /\ callers' = [callers EXCEPT ![g].pc = "periodStart"]
    /\ UNCHANGED << pipeVars, now, collector, collCallsLeft, unlocked >>

\* What a read of c.lastResetTime can see: the field, or, while a Reset holds
\* the mutex and the read is not ordered with its write, a torn value.
LastResetTimeRead ==
    IF collMu.writer # 0 /\ callers[collMu.writer].op = "Reset"
    THEN {collector.lastResetTime, -1}
    ELSE {collector.lastResetTime}

\* metrics["period_duration"] = ...; metrics["period_start"] =
\* c.lastResetTime.Format(...); return metrics
PeriodStart(g) ==
    /\ g \in Callers
    /\ callers[g].pc = "periodStart"
    /\ \E t \in LastResetTimeRead :
          callers' = [callers EXCEPT
             ![g].pc = "idle", ![g].op = "none", ![g].arg = 0,
             ![g].ret = [metrics |-> callers[g].ret,
                         period_duration |-> callers[g].arg,
                         period_start |-> t]]
    /\ unlocked' = unlocked \cup Unheld(g, "GetPeriodMetrics", "read")
    /\ UNCHANGED << pipeVars, now, collector, collMu, collCallsLeft >>

\* Goroutines calling the methods of a Collector.
InitColl ==
    /\ InitPipeline(1, 0)
    /\ faults = FALSE
    /\ InitCollector(MaxCallers, MaxCollectorCalls)

\* The steps inside a method of the Collector.
CollStep ==
    \/ \E g \in Callers : CollLock(g)
    \/ \E g \in Callers : CollBody(g)
    \/ \E g \in Callers : CollUnlock(g)

NextColl ==
    \/ \E g \in Callers, op \in WriterOps \cup ReaderOps :
          \E arg \in Args(op) : CollCall(g, op, arg)
    \/ CollStep
    \/ \E g \in Callers : PeriodRLock(g)
    \/ \E g \in Callers : PeriodDuration(g)
    \/ \E g \in Callers : PeriodRUnlock(g)
    \/ \E g \in Callers : PeriodStart(g)
    \/ Advance(MaxNow)

CollectorSpec == InitColl /\ [][NextColl]_vars

\* The methods that write the counters and those that derive a value from
\* them.
DerivedOps ==
    {"GetAverageProcessingDuration", "GetSuccessRate", "GetThroughput",
     "GetMetrics"}

\* Goroutines that write, reset and read the derived metrics of a Collector.
InitDerived ==
    /\ InitPipeline(1, 0)
    /\ faults = FALSE
    /\ InitCollector(MaxDerivedCallers, MaxDerivedCalls)

NextDerived ==
    \/ \E g \in Callers, op \in WriterOps \cup DerivedOps :
          \E arg \in Args(op) : CollCall(g, op, arg)
    \/ CollStep
    \/ Advance(MaxNow)

DerivedSpec == InitDerived /\ [][NextDerived]_vars

\* Normal operation on messages of every source kind.
InitDispatch == InitWith(MaxDispatchWorkers, MaxDispatchSubmits)

NextDispatch ==
    \/ \E msg \in AllMessages, o \in Outcomes : SubmitMessage(msg, o)
    \/ \E w \in WorkerIds : WorkerDequeue(w)
    \/ \E w \in WorkerIds : WorkerProcessJob(w)
    \/ \E w \in WorkerIds : WorkerUpdateMetrics(w)
    \/ \E job \in retries, o \in Outcomes : RetrySubmit(job, o)
    \/ StartOnce
    \/ MetricsHandlerTick

DispatchSpec == InitDispatch /\ [][NextDispatch]_vars

\* Normal operation with the submitter's send and increment as two steps,
\* each interleaved with the steps of the workers.
InitRace == InitWith(MaxRaceWorkers, MaxRaceSubmits)

NextRace ==
    \/ \E msg \in Messages : SubmitMessageCall(msg)
    \/ SubmitJobSend
    \/ SubmitJobIncrement
    \/ \E w \in WorkerIds : WorkerDequeue(w)
    \/ \E w \in WorkerIds : WorkerProcessJob(w)
    \/ \E w \in WorkerIds : WorkerUpdateMetrics(w)
    \/ \E job \in retries, o \in Outcomes : RetrySubmit(job, o)
    \/ StartOnce
    \/ MetricsHandlerTick

SubmitRaceSpec == InitRace /\ [][NextRace]_vars

\* Normal operation fed by one SubmitBatch call on BatchSlice: the loop takes
\* the messages of the slice by index.
InitSlice == InitWith(MaxSliceWorkers, MaxSliceLen)

NextSlice ==
    \/ batchRet = "none" /\ SubmitBatchCall(MaxSliceLen)
    \/ /\ batchLeft > 0
       /\ \E o \in Outcomes :
             SubmitBatchStep(BatchSlice[MaxSliceLen - batchLeft + 1], o)
    \/ \E w \in WorkerIds : WorkerDequeue(w)
    \/ \E w \in WorkerIds : WorkerProcessJob(w)
    \/ \E w \in WorkerIds : WorkerUpdateMetrics(w)
    \/ \E job \in retries, o \in Outcomes : RetrySubmit(job, o)
    \/ StartOnce
    \/ MetricsHandlerTick

SliceSpec == InitSlice /\ [][NextSlice]_vars

\* Messages submitted to a manager that has not been started, and normal
\* operation after its Start.
InitPre == InitWith(MaxPreWorkers, MaxPreSubmits)

NextPre ==
    \/ ~started /\ \E msg \in Messages, o \in Outcomes : SubmitMessage(msg, o)
    \/ \E w \in WorkerIds : WorkerDequeue(w)
    \/ \E w \in WorkerIds : WorkerProcessJob(w)
    \/ \E w \in WorkerIds : WorkerUpdateMetrics(w)
    \/ \E job \in retries, o \in Outcomes : RetrySubmit(job, o)
    \/ StartOnce
    \/ MetricsHandlerTick

\* Each worker goroutine goes on running its loop.
PreStartFairness ==
    \A w \in 1..MaxPreWorkers :
        /\ WF_vars(WorkerDequeue(w))
        /\ WF_vars(WorkerProcessJob(w))
        /\ WF_vars(WorkerUpdateMetrics(w))

PreStartSpec == InitPre /\ [][NextPre]_vars /\ PreStartFairness

\* ===================================================================== claims
Range(seq) == {seq[i] : i \in 1..Len(seq)}

\* Started or not, nobody has called Stop or cancelled a context, and the
\* process has not panicked.
Normal == Alive /\ ~mctxDone /\ ~ctxDone

InQueue(id) == \E j \in Range(jobQueue) : j.id = id
BeingProcessed(id) ==
    \E w \in Workers : workers[w].pc = "processJob" /\ workers[w].job.id = id
RetryPending(id) == \E j \in retries : j.id = id

\* An attempt of job id is under way or still to come.
Live(id) == InQueue(id) \/ BeingProcessed(id) \/ RetryPending(id)

Dispositions(id) == successWrites[id] + failureWrites[id]

\* C1: under normal operation every accepted message ends with exactly one
\* terminal disposition (one success write or one terminal-failure write).
\* Stated on states: an accepted job never has two dispositions, and a job
\* without a disposition still has an attempt queued, running or awaiting its
\* resubmission, for a job with neither can never get one.
C1_ExactlyOneDisposition ==
    Normal =>
        \A id \in accepted :
            /\ Dispositions(id) <= 1
            /\ Dispositions(id) = 0 => Live(id)

\* C2: every job enqueued or processed has 1 <= Attempt <= MaxRetries; the
\* first job of an ID has Attempt 1, and each later job of that ID carries the
\* same ID and Message with Attempt one greater than the attempt before it.
JobFollowsLog(job) ==
    LET log == attemptLog[job.id]
    IN  /\ job.attempt = Len(log) + 1
        /\ 1 <= job.attempt /\ job.attempt <= config.MaxRetries
        /\ log # << >> => job.msg = log[1].msg

C2_AttemptSequence ==
    /\ \A id \in JobIds :
          \A k \in 1..Len(attemptLog[id]) :
              /\ attemptLog[id][k].id = id
              /\ attemptLog[id][k].attempt = k
              /\ k <= config.MaxRetries
              /\ attemptLog[id][k].msg = attemptLog[id][1].msg
    /\ \A job \in Range(jobQueue) \cup retries : JobFollowsLog(job)
    /\ \A w \in Workers :
          workers[w].pc = "processJob" => JobFollowsLog(workers[w].job)

\* A job is on its last allowed attempt after at least one retry.
C2_Witness ==
    \E job \in Range(jobQueue) :
        job.attempt >= 2 /\ job.attempt = config.MaxRetries

\* C3: for a message that fails on every attempt, under normal operation
\* exactly MaxRetries attempts occur, numbered 1..MaxRetries, and the terminal
\* failure is recorded once, for attempt MaxRetries.  Stated on states: once
\* no attempt of such a job is queued, running or awaiting resubmission, all
\* of that has happened.
C3_ExactlyMaxRetriesAttempts ==
    Normal =>
        \A id \in accepted :
            (/\ attemptLog[id] # << >>
             /\ ~processMessage(attemptLog[id][1].msg)
             /\ ~Live(id))
            => /\ Len(attemptLog[id]) = config.MaxRetries
               /\ failureWrites[id] = 1
               /\ failedAttempt[id] = config.MaxRetries
               /\ successWrites[id] = 0

StopInProgress == stopPc \in {"workers", "close", "wait"}

\* C4: Stop called on a running manager whose Start context is not cancelled
\* returns in the end.  (The runs in which the context is cancelled after all,
\* or the process panics, are left out of the claim.)
C4_StopReturns ==
    (StopInProgress /\ ~ctxDone) ~> (stopPc = "returned" \/ ctxDone \/ ~Alive)

\* C5: Stop called on a running manager after the Start context has been
\* cancelled returns in the end, whether or not workers have already exited.
C5_StopReturnsAfterCancel ==
    (StopInProgress /\ atStop.ctxDone) ~> (stopPc = "returned" \/ ~Alive)

\* C6: when Stop returns, no worker is inside processJob (processMessage,
\* handleResult with its sink write and notification, updateMetrics).
C6_StopWaitsForInFlight ==
    stopPc = "returned" => \A w \in Workers : ~InProcessJob(w)

\* Stop was called with a job in flight and has returned.
C6_Witness == stopPc = "returned" /\ atStop.inflight

\* C7: once shutdown has begun (m.cancel() in Stop, or the Start context
\* cancelled), every SubmitMessage returns the shutting-down error.
C7_ShutdownRejectsSubmit ==
    lastSubmit.shutdown => lastSubmit.ret = "shutdown"

\* C8: no submission, by a caller or by a retry goroutine, sends on the closed
\* job queue.
C8_NoSendOnClosedQueue == panicked # "send on closed channel"

\* C9: a SubmitBatch that returns nil has enqueued every message of the batch.
C9_DeclineReported == batchRet = "nil" => batchDeclined = 0

\* C10 as claimed: jobs_submitted is the number of messages accepted through
\* SubmitMessage and SubmitBatch.
C10_SubmittedEqualsAccepted == metrics.jobsSubmitted = Cardinality(accepted)

\* C10 as amended: jobs_submitted is the number of jobs SubmitJob enqueued,
\* the accepted messages plus the retry jobs enqueued by the retry goroutines;
\* a declined submission or resubmission is not counted.
C10_SubmittedCountsEnqueued ==
    metrics.jobsSubmitted = Cardinality(accepted) + retriesEnqueued

\* Two messages were accepted, a third was declined on the full queue, and a
\* retry job has been enqueued.
C10_Witness ==
    /\ Cardinality(accepted) >= 2
    /\ lastSubmit.ret = "timeout"
    /\ retriesEnqueued >= 1

Full == Len(jobQueue) >= JobQueueCap

\* C11: backpressure.  A SubmitMessage call waiting on a full job queue does
\* not wait forever: unless a worker makes room, it returns the queue-timeout
\* error; and a call that returns that error has left the contents of the job
\* queue and jobs_submitted as they were.
C11_BackpressureTimeout ==
    /\ (pending # NoJob /\ Full)
          ~> ((pending = NoJob /\ lastSubmit.ret = "timeout") \/ ~Full)
    /\ [][(pending # NoJob /\ pending' = NoJob /\ lastSubmit'.ret = "timeout")
            => /\ jobQueue' = jobQueue
               /\ metrics'.jobsSubmitted = metrics.jobsSubmitted]_vars

\* The last call found the queue full, timed out, and the queue is as full
\* as it was.
C11_Witness ==
    /\ pending = NoJob
    /\ lastSubmit.ret = "timeout"
    /\ Full
    /\ metrics.jobsSubmitted = Cardinality(accepted) + retriesEnqueued

\* A Stop that found the manager running has closed the queues and returned,
\* and no Stop is under way.
StopCompleted == jobQueueClosed /\ MuFree

\* C12: Stopped is terminal.  Once a Stop of a running manager has completed,
\* the manager is never Running again: no later Start sets it started and
\* spawns workers on the closed queues.
C12_StoppedIsTerminal == StopCompleted => ~started

\* C13: a successful Start spawns exactly Config.Workers workers, one result
\* handler and one metrics reporter, and only a Start of a manager that is
\* not started spawns anything; a Start of a started manager returns the
\* already-started error and leaves the workers, the handlers and the queues
\* as they were.  Start runs under m.mu, so racing calls are steps in a row.
C13_StartSpawnsOnce ==
    [][/\ (\/ wg' > wg
           \/ \E w \in Workers :
                 workers'[w].pc = "select" /\ workers[w].pc \in {"none", "exited"})
          => /\ ~started /\ started'
             /\ startRet' = "nil"
             /\ \A w \in Workers : workers[w].pc \in {"none", "exited"}
             /\ \A w \in Workers : workers'[w] = IdleWorker("select")
             /\ resultHandlerPc # "running" /\ resultHandlerPc' = "running"
             /\ metricsHandlerPc # "running" /\ metricsHandlerPc' = "running"
             /\ wg' = wg + 2
       /\ (~started /\ started') => startRet' = "nil"
       /\ (startRet' = "already started" /\ startRet # "already started")
          => /\ started
             /\ UNCHANGED << started, workers, wg, resultHandlerPc,
                             metricsHandlerPc, jobQueue, jobQueueClosed,
                             resultQueueClosed, mctxDone, metrics >>
      ]_vars

\* Start was called on a running manager, whose workers are all still there.
C13_Witness ==
    /\ startRet = "already started"
    /\ started
    /\ wg = 2
    /\ \A w \in Workers : workers[w].pc # "none"

\* C14: Stop on a manager that is not started returns at once and is a no-op:
\* m.ctx is not cancelled, no queue is closed, nothing of the manager changes,
\* so that a later Start or SubmitMessage finds the manager as NewManager
\* left it.
C14_StopBeforeStartIsNoOp ==
    [][(~started /\ MuFree /\ stopPc' # stopPc /\ stopPc' # "idle")
          => /\ stopPc' = "returned"
             /\ UNCHANGED << started, mctxDone, jobQueue, jobQueueClosed,
                             resultQueueClosed, workers, wg, resultHandlerPc,
                             metricsHandlerPc, metrics, panicked >>
      ]_vars

\* Stop has returned on a manager that was never started, and a message has
\* been accepted by it.
C14_Witness ==
    /\ stopPc = "returned"
    /\ startRet = "none"
    /\ ~jobQueueClosed /\ ~mctxDone
    /\ accepted # {}

\* C15: the attempts of one job never overlap.  While a worker is inside
\* processJob on a job (its result handling and metrics update included), no
\* later attempt of that job is in the job queue and no other worker is
\* processing a job of that ID.
C15_AttemptsDoNotOverlap ==
    \A w \in Workers :
        InProcessJob(w) =>
            /\ ~InQueue(workers[w].job.id)
            /\ \A v \in Workers \ {w} :
                  InProcessJob(v) => workers[v].job.id # workers[w].job.id

\* C16: retry scheduling never occupies a worker.  On a started manager every
\* job in the queue is dequeued in the end by the workers alone, however many
\* jobs await their retry and however long the retry delays last.
C16_RetryLeavesWorkerFree ==
    \A id \in JobIds : (started /\ InQueue(id)) ~> ~InQueue(id)

\* As many jobs await their retry as there are workers, and a worker is
\* processing the first attempt of another job.
C16_Witness ==
    /\ Cardinality({job.id : job \in retries}) >= config.Workers
    /\ \E w \in Workers :
          /\ workers[w].pc = "processJob"
          /\ workers[w].job.attempt = 1
          /\ ~RetryPending(workers[w].job.id)

\* C17: results go through the result queue to the single result handler,
\* which alone writes to the sink: no step of a worker goroutine writes a
\* success object or an error envelope.
C17_WritesOnlyByResultHandler ==
    [][(\/ sink' # sink
        \/ successWrites' # successWrites
        \/ failureWrites' # failureWrites) => workers' = workers]_vars

\* The attempts of job id that a worker has dequeued and not yet turned into
\* a result.
InProcessMessage(id) ==
    {w \in Workers : workers[w].pc = "processJob" /\ workers[w].job.id = id}

\* C18: every dequeued job yields exactly one ProcessingResult, with the
\* job's JobID and MessageID and with Success true exactly when processMessage
\* returned no error: the results of an ID are as many as its dequeued
\* attempts, less those a worker is working on.
C18_OneResultPerDequeue ==
    \A id \in JobIds :
        /\ dequeues[id] = Len(results[id]) + Cardinality(InProcessMessage(id))
        /\ Len(results[id]) = Len(attemptLog[id])
        /\ \A k \in 1..Len(results[id]) :
              /\ results[id][k].JobID = attemptLog[id][k].id
              /\ results[id][k].MessageID = attemptLog[id][k].msg.id
              /\ results[id][k].Success = processMessage(attemptLog[id][k].msg)

\* A job has failed on every one of several attempts, each with its result.
C18_Witness ==
    \E id \in JobIds :
        /\ config.MaxRetries > 1
        /\ dequeues[id] = config.MaxRetries
        /\ Len(results[id]) = config.MaxRetries
        /\ ~results[id][1].Success

\* The context the worker selects on is cancelled, or Stop is sending on its
\* quitChan.
CancellationSignalled(w) == ctxDone \/ (stopPc = "workers" /\ stopIdx = w)

\* C19: a worker to which cancellation has been signalled dequeues no further
\* job, even when the job queue is not empty.
C19_NoDequeueAfterCancel ==
    [][\A w \in Workers :
          (CancellationSignalled(w) /\ workers[w].pc = "select")
              => workers'[w].pc # "processJob"]_vars

\* The success objects the bucket holds for MessageID m in hour h.
SuccessObjects(bucket, m, h) ==
    {obj \in bucket :
        obj.key[1] = "processed" /\ obj.key[2] = h /\ obj.MessageID = m}

\* C20: idempotence at the sink.  The bucket never holds two success objects
\* for one MessageID and one hour; a success write for a MessageID that has a
\* success object in the current hour adds no object and leaves the writing
\* job's object in its place, and any other success write adds one object.
C20_SameMessageSameKey ==
    /\ [](\A obj \in sink :
             Cardinality(SuccessObjects(sink, obj.MessageID, obj.key[2])) <= 1)
    /\ [][\A id \in JobIds :
             successWrites'[id] > successWrites[id] =>
                 LET m == attemptLog'[id][1].msg.id
                 IN  /\ Cardinality(sink') =
                            IF SuccessObjects(sink, m, hour) # {}
                            THEN Cardinality(sink)
                            ELSE Cardinality(sink) + 1
                     /\ \E obj \in SuccessObjects(sink', m, hour) :
                            obj.JobID = id]_vars

\* Two jobs have written their success object in the same hour, and the
\* bucket holds one object: that of the later write.
C20_Witness ==
    /\ hour = 0
    /\ \E i, j \in JobIds :
          /\ i < j
          /\ successWrites[i] = 1 /\ successWrites[j] = 1
          /\ sink = {[key |-> << "processed", 0, 1 >>, JobID |-> j,
                       MessageID |-> 1]}

\* Worker w leaves processJob in this step with a failed result.
FailedAttemptHandled(w) ==
    /\ w \in Workers
    /\ workers[w].pc = "processJob"
    /\ workers'[w].pc # "processJob"
    /\ ~workers'[w].ok

\* C21: a failed attempt with Attempt < MaxRetries starts one resubmission and
\* makes no sink write and no notification; a failed attempt with
\* Attempt = MaxRetries writes exactly one error envelope, emits exactly one
\* status=failed notification and starts no resubmission.
C21_RetryOrFailurePath ==
    [][\A w \in WorkerIds :
          FailedAttemptHandled(w) =>
            LET job == workers[w].job
                id == job.id
            IN  /\ successWrites' = successWrites
                /\ \A i \in JobIds :
                      notifications'[i].success = notifications[i].success
                /\ job.attempt <= config.MaxRetries
                /\ job.attempt < config.MaxRetries =>
                      /\ retries' = retries \cup
                             {Job(id, job.msg, job.attempt + 1)}
                      /\ retries' # retries
                      /\ sink' = sink
                      /\ failureWrites' = failureWrites
                      /\ notifications' = notifications
                /\ job.attempt = config.MaxRetries =>
                      /\ retries' = retries
                      /\ failureWrites' =
                             [failureWrites EXCEPT ![id] = @ + 1]
                      /\ \E obj \in sink' :
                            /\ obj.key[1] = "failed"
                            /\ obj.JobID = id
                            /\ sink' \ {obj} \subseteq sink
                      /\ notifications' = [notifications EXCEPT
                             ![id] = [@ EXCEPT !.failed = @ + 1]]]_vars

\* A job has failed for good after two retries: one envelope, one notification.
C21_Witness ==
    \E id \in JobIds :
        /\ config.MaxRetries = DefaultMaxRetries
        /\ Len(attemptLog[id]) = DefaultMaxRetries
        /\ retriesEnqueued >= 2
        /\ failureWrites[id] = 1
        /\ notifications[id] = [success |-> 0, failed |-> 1]

\* The objects of the bucket written by the success path, by the failure path.
SuccessRecords(bucket) == {obj \in bucket : successWrites[obj.JobID] > 0}
FailureRecords(bucket) == {obj \in bucket : failureWrites[obj.JobID] > 0}

\* C22: success records and failure records live in disjoint key namespaces.
\* For every MessageID the success key and the failure key of the hour
\* differ, no success record and failure record of the bucket share a key,
\* and a write of one kind leaves every record of the other kind in place.
C22_DisjointNamespaces ==
    /\ [](\A id \in JobIds, m \in {msg.id : msg \in SinkMessages} :
            LET result == [JobID |-> id, MessageID |-> m, Success |-> FALSE]
            IN  SuccessKey(result) # FailureKey(result))
    /\ [](\A a \in SuccessRecords(sink), b \in FailureRecords(sink) :
            a.key # b.key)
    /\ [][\A id \in JobIds :
            /\ successWrites'[id] > successWrites[id] =>
                  FailureRecords(sink) \subseteq sink'
            /\ failureWrites'[id] > failureWrites[id] =>
                  SuccessRecords(sink) \subseteq sink']_vars

\* One hour holds a success record and a failure record of the same MessageID.
C22_Witness ==
    \E a \in SuccessRecords(sink), b \in FailureRecords(sink) :
        /\ a.MessageID = b.MessageID
        /\ a.key[2] = b.key[2]
        /\ a.key[1] = "processed" /\ b.key[1] = "failed"

\* The calls of one Upload or SendMessage are at most `attempts`, none is made
\* after a success, and an error is returned exactly when all of them failed.
BoundedRetry(io, attempts) ==
    /\ io.calls <= attempts
    /\ Len(io.outcomes) = io.calls
    /\ \A i \in 1..(io.calls - 1) : ~io.outcomes[i]
    /\ io.err <=> (io.calls = attempts /\ ~io.outcomes[attempts])
    /\ ~io.err /\ io.calls > 0 => io.outcomes[io.calls]

\* Worker w leaves processJob in this step on the success path or on the
\* failure path.
ResultHandled(w) ==
    /\ w \in Workers
    /\ workers[w].pc = "processJob"
    /\ workers'[w].pc # "processJob"
    /\ workers'[w].ok \/ workers[w].job.attempt >= config.MaxRetries

\* C23: sink and notifier I/O is retried a bounded number of times (at most 3
\* calls per Upload or SendMessage, stopping at the first success), and a
\* failed Upload or SendMessage is not escalated: the worker still emits the
\* notification, updates the metrics and is back at its select.
C23_BoundedRetryNoEscalation ==
    /\ [](BoundedRetry(lastIO.upload, 3) /\ BoundedRetry(lastIO.send, 3))
    /\ [](panicked = "none")
    /\ [][\A w \in WorkerIds :
            /\ ResultHandled(w) =>
                  LET id == workers[w].job.id
                  IN  /\ lastIO'.upload.calls >= 1
                      /\ lastIO'.send.calls >= 1
                      /\ notifications'[id].success + notifications'[id].failed
                           = notifications[id].success
                             + notifications[id].failed + 1
                      /\ workers'[w].pc = "updateMetrics"
            /\ (w \in Workers /\ workers[w].pc = "updateMetrics"
                  /\ workers'[w].pc # "updateMetrics") =>
                  /\ workers'[w].pc = "select"
                  /\ metrics'.processedJobs = metrics.processedJobs + 1]_vars

\* The Upload and the SendMessage of a job failed all their calls, its
\* notification was emitted, its metrics are recorded, and the worker is back
\* at its select.
C23_Witness ==
    /\ lastIO.upload = [outcomes |-> << FALSE, FALSE, FALSE >>,
                        calls |-> 3, err |-> TRUE]
    /\ lastIO.send.err
    /\ notifications[1].success + notifications[1].failed = 1
    /\ metrics.processedJobs >= 1
    /\ \A w \in Workers : workers[w].pc = "select"

\* The jobs that completed successfully, and the jobs that failed for good:
\* their last attempt failed and was the attempt numbered MaxRetries or later.
SucceededJobs ==
    {id \in JobIds : \E i \in 1..Len(results[id]) : results[id][i].Success}
FailedJobs ==
    {id \in JobIds :
        /\ results[id] # << >>
        /\ ~results[id][Len(results[id])].Success
        /\ attemptLog[id][Len(attemptLog[id])].attempt >= config.MaxRetries}

\* No worker is between processMessage and the end of updateMetrics.
NoResultInHand ==
    \A w \in Workers : workers[w].pc \notin {"processJob", "updateMetrics"}

\* C24: the metrics counters count terminal jobs.  With no Reset, and no
\* result in a worker's hands, jobs_succeeded is the number of jobs that
\* completed successfully and jobs_failed the number of jobs that failed
\* for good, each counted once.
C24_CountersCountTerminalJobs ==
    NoResultInHand =>
        /\ metrics.jobsSucceeded = Cardinality(SucceededJobs)
        /\ metrics.jobsFailed = Cardinality(FailedJobs)

\* C25: every read and every write of a Collector field happens while the
\* Collector's lock is held, in every public method including
\* GetPeriodMetrics; a writer excludes readers and other writers.
C25_AccessUnderLock ==
    /\ unlocked = {}
    /\ collMu.writer # 0 => collMu.readers = {}

\* Goroutine g executes the statements of Reset in this step.
ResetStep(g) ==
    /\ callers[g].op = "Reset"
    /\ callers[g].pc = "body"
    /\ callers'[g].pc = "unlock"

\* C26: Reset() sets jobsSubmitted, jobsSucceeded, jobsFailed, the cumulative
\* processing duration and the processed-job count to zero, moves
\* lastResetTime to the time of the call, and leaves startTime unchanged.
C26_ResetFrame ==
    [][\A g \in Callers :
          ResetStep(g) =>
              /\ collector'.jobsSubmitted = 0
              /\ collector'.jobsSucceeded = 0
              /\ collector'.jobsFailed = 0
              /\ collector'.totalProcessingTime = 0
              /\ collector'.processedJobs = 0
              /\ collector'.lastResetTime = now
              /\ collector'.startTime = collector.startTime]_vars

\* A Reset has just run, a second after construction, on a Collector that
\* the goroutine had read a processed job from.
C26_Witness ==
    \E g \in Callers :
        /\ callers[g].op = "Reset" /\ callers[g].pc = "unlock"
        /\ callers[g].got = "GetMetrics"
        /\ callers[g].ret.processed_jobs = 1
        /\ callers[g].ret.total_processing_time = 1
        /\ collector.processedJobs = 0
        /\ collector.totalProcessingTime = 0
        /\ collector.startTime = 0
        /\ collector.lastResetTime = 1

\* The rate r is finite, within 0..100, and is 0 for s + f = 0 and
\* s*100/(s+f) otherwise.
RateAsClaimed(r, s, f) ==
    /\ r.den > 0
    /\ 0 <= r.num /\ r.num <= 100 * r.den
    /\ IF s + f = 0 THEN r.num = 0
       ELSE r.num * (s + f) = s * 100 * r.den

\* The average a is computed without a panic, and is 0 for n = 0 and
\* total / n otherwise.
AverageAsClaimed(a, total, n) ==
    /\ ~a.panic
    /\ a.value = IF n = 0 THEN 0 ELSE total \div n

\* Goroutine g has read the fields in method op and still holds the read lock.
HasRead(g, op) == callers[g].pc = "unlock" /\ callers[g].op = op

\* C27: derived metrics are total functions of the counters.  The success
\* rate is 0 when jobs_succeeded + jobs_failed = 0 and
\* succeeded*100/(succeeded+failed) otherwise, within 0..100; the average
\* duration is 0 when processed_jobs = 0 and the cumulative duration divided
\* by processed_jobs otherwise; no read divides by zero.
C27_DerivedMetricsTotal ==
    \A g \in Callers :
        LET ret == callers[g].ret
            c == collector
        IN  /\ HasRead(g, "GetSuccessRate") =>
                  RateAsClaimed(ret, c.jobsSucceeded, c.jobsFailed)
            /\ HasRead(g, "GetAverageProcessingDuration") =>
                  AverageAsClaimed(ret, c.totalProcessingTime, c.processedJobs)
            /\ HasRead(g, "GetThroughput") => ret.den > 0
            /\ HasRead(g, "GetMetrics") =>
                  /\ RateAsClaimed(ret.success_rate_percent,
                                   c.jobsSucceeded, c.jobsFailed)
                  /\ AverageAsClaimed(ret.avg_processing_duration,
                                      c.totalProcessingTime, c.processedJobs)
                  /\ ret.throughput_jobs_per_sec.den > 0
                  /\ ret.total_jobs = c.jobsSucceeded + c.jobsFailed

\* GetMetrics has read a Collector that a Reset has just emptied.
C27_Witness ==
    \E g \in Callers :
        /\ HasRead(g, "GetMetrics")
        /\ collector.lastResetTime > collector.startTime
        /\ callers[g].ret.total_jobs = 0
        /\ callers[g].ret.processed_jobs = 0
        /\ callers[g].ret.success_rate_percent = Float(0)

\* The workers whose goroutine is running.
RunningWorkers ==
    {w \in Workers : workers[w].pc \in {"select", "processJob", "updateMetrics"}}

\* C28: Manager.GetMetrics reports live values.  queue_size is the number of
\* jobs waiting in the job queue, and active_workers is 0 before Start,
\* WorkerCount while Running, and 0 after Stop has stopped the workers.
C28_GetMetricsLive ==
    /\ ManagerGetMetrics.queue_size = Len(jobQueue)
    /\ startRet = "none" => ManagerGetMetrics.active_workers = 0
    /\ started /\ MuFree /\ RunningWorkers = Workers =>
          ManagerGetMetrics.active_workers = config.Workers
    /\ StopCompleted /\ RunningWorkers = {} =>
          ManagerGetMetrics.active_workers = 0

\* C29: the job queue is bounded.  In every reachable state at most
\* 2 x BatchSize jobs are waiting in it, first attempts and retries counted
\* together, and a job is added to it only when fewer than 2 x BatchSize
\* are waiting.
C29_QueueBounded ==
    /\ [](Len(jobQueue) <= 2 * config.BatchSize)
    /\ [][Len(jobQueue') > Len(jobQueue) =>
             /\ Len(jobQueue) < 2 * config.BatchSize
             /\ Len(jobQueue') = Len(jobQueue) + 1]_vars

\* The queue is full, and one of the jobs waiting in it is a retry.
C29_Witness ==
    /\ Len(jobQueue) = 2 * config.BatchSize
    /\ \E i \in 1..Len(jobQueue) : jobQueue[i].attempt = 1
    /\ \E i \in 1..Len(jobQueue) : jobQueue[i].attempt > 1

\* The retry goroutine of `job` gets its job into the queue in this step.
RetryEnqueued(job) ==
    /\ job \in retries
    /\ job \notin retries'
    /\ Len(jobQueue') = Len(jobQueue) + 1
    /\ jobQueue'[Len(jobQueue')] = job

\* The failed attempts that were followed by the start of a retry goroutine.
RetriedAttempts ==
    {<< id, i >> \in JobIds \X (1..DefaultMaxRetries) :
        /\ i <= Len(results[id])
        /\ ~results[id][i].Success
        /\ attemptLog[id][i].attempt < config.MaxRetries}

\* C30: linear backoff.  The retry of a job whose attempt k failed is not
\* enqueued until at least k seconds after that failure was handled, and it
\* is enqueued at most once per failed attempt.
C30_LinearBackoff ==
    /\ [][\A job \in retries :
             RetryEnqueued(job) =>
                 LET log == attemptLog[job.id]
                     k == log[Len(log)].attempt
                 IN  /\ job.attempt = k + 1
                     /\ now - sleepFrom[job.id] >= k
                     /\ ~InQueue(job.id)
                     /\ ~BeingProcessed(job.id)]_vars
    /\ [](retriesEnqueued + retriesDropped + Cardinality(retries)
            = Cardinality(RetriedAttempts))

\* The retry that follows the failure of attempt 2 is in the queue, two
\* seconds or more after that failure, the first retry having waited one.
C30_Witness ==
    \E i \in 1..Len(jobQueue) :
        LET job == jobQueue[i]
        IN  /\ job.attempt = 3
            /\ sleepFrom[job.id] >= 1
            /\ now >= sleepFrom[job.id] + 2

\* The source kinds with a transform of their own.
KnownSources == {"kafka", "file", "api"}

\* C31: a message whose source kind is file, or is none of kafka, file and
\* api, is processed successfully on its first attempt whatever its data:
\* it has one result, a success, is never retried and never reaches the
\* failure path.
C31_FileAndFallbackSucceed ==
    \A id \in JobIds :
        (attemptLog[id] # << >>
            /\ attemptLog[id][1].msg.src \in {"file"} \cup (Sources \ KnownSources))
        => /\ Len(attemptLog[id]) = 1
           /\ attemptLog[id][1].attempt = 1
           /\ results[id] = << [JobID |-> id,
                                MessageID |-> attemptLog[id][1].msg.id,
                                Success |-> TRUE] >>
           /\ ~RetryPending(id)
           /\ ~InQueue(id)
           /\ failureWrites[id] = 0
           /\ notifications[id].failed = 0

\* A message of an unrecognized kind, with data that the Kafka and the API
\* transforms reject, has been processed and stored as a success.
C31_Witness ==
    \E id \in JobIds :
        /\ attemptLog[id] # << >>
        /\ attemptLog[id][1].msg.src \notin KnownSources
        /\ attemptLog[id][1].msg.data = "brokenObject"
        /\ results[id][1].Success
        /\ successWrites[id] = 1

RECURSIVE SumOver(_, _)
\* The sum of f over the set S of its arguments.
SumOver(f, S) ==
    IF S = {} THEN 0
    ELSE LET x == CHOOSE y \in S : TRUE IN f[x] + SumOver(f, S \ {x})

\* The jobs that workers hold between their receive and the end of processJob.
HeldJobs == {workers[w].job : w \in {v \in Workers : InProcessJob(v)}}

\* C32: each job placed on the job queue is received by at most one worker
\* and processed at most once.  Every job ever enqueued is either still in
\* the queue or has been received exactly once; two workers never hold the
\* same attempt, an attempt held by a worker is not in the queue as well,
\* and no attempt of a job appears twice among the attempts processed.
C32_DequeuedAndProcessedOnce ==
    /\ SumOver(dequeues, JobIds) + Len(jobQueue)
           = Cardinality(accepted) + retriesEnqueued
    /\ \A w \in Workers : \A v \in Workers \ {w} :
          (InProcessJob(w) /\ InProcessJob(v))
              => workers[w].job # workers[v].job
    /\ \A job \in HeldJobs : job \notin Range(jobQueue)
    /\ \A i, j \in 1..Len(jobQueue) : i # j => jobQueue[i] # jobQueue[j]
    /\ \A id \in JobIds :
          /\ Len(attemptLog[id]) <= dequeues[id]
          /\ \A i, j \in 1..Len(attemptLog[id]) :
                i # j => attemptLog[id][i].attempt # attemptLog[id][j].attempt

\* Two workers compete on the shared queue, two jobs have been accepted, and
\* each job has been received once, each by one of the two workers.
C32_Witness ==
    /\ Cardinality(Workers) >= 2
    /\ Cardinality({w \in Workers : InProcessJob(w)}) = 2
    /\ Cardinality(HeldJobs) = 2
    /\ \A id \in accepted : dequeues[id] = 1

\* C33: with no Reset, processed_jobs never exceeds jobs_submitted: no
\* attempt's duration is recorded before the submission that enqueued the
\* attempt has been counted.
C33_ProcessedWithinSubmitted ==
    metrics.processedJobs <= metrics.jobsSubmitted

\* The number of attempts processJob has run on job id.
AttemptCount == [id \in JobIds |-> Len(attemptLog[id])]

\* The attempts whose result has been handled and not yet recorded.
Unrecorded == {w \in Workers : workers[w].pc = "updateMetrics"}

\* C34: processed_jobs counts attempts.  With no Reset it equals the number
\* of processing attempts that have completed, successful, retried and
\* terminal alike, and each step that completes an attempt adds exactly one.
C34_ProcessedCountsAttempts ==
    /\ [](metrics.processedJobs
             = SumOver(AttemptCount, JobIds) - Cardinality(Unrecorded))
    /\ [][metrics'.processedJobs
             = metrics.processedJobs + Cardinality(Unrecorded \ Unrecorded')]_vars

\* A job has failed once, been retried and failed for good, another job has
\* succeeded, no attempt is in progress, and processed_jobs is 3.
C34_Witness ==
    /\ \E id \in JobIds :
          /\ Len(results[id]) = 2
          /\ ~results[id][1].Success /\ ~results[id][2].Success
    /\ \E id \in JobIds : Len(results[id]) = 1 /\ results[id][1].Success
    /\ \A w \in Workers : ~InProcessJob(w)
    /\ metrics.processedJobs = 3

\* The jobs that exist at the moment: in the queue, in a worker's hands, or
\* waiting for their retry.
JobsAbout == Range(jobQueue) \cup HeldJobs \cup retries

\* The first attempts in the job queue, in queue order.
FirstAttemptsQueued == SelectSeq(jobQueue, LAMBDA job : job.attempt = 1)

\* C35: SubmitBatch submits the messages of the batch one by one in slice
\* order, each in a new job with Attempt = 1, and a declined message does not
\* abort the batch.  Each iteration calls SubmitMessage on the next message
\* of the slice whatever became of the one before; the i-th job carries the
\* i-th message; a job enters the queue from the loop as attempt 1, behind
\* the jobs of the earlier messages; and when SubmitBatch returns every
\* message of the slice has been either accepted or declined.
C35_BatchSubmitsEveryMessage ==
    /\ [](\A job \in JobsAbout : job.msg = BatchSlice[job.id])
    /\ [](\A i, j \in 1..Len(FirstAttemptsQueued) :
             i < j => FirstAttemptsQueued[i].id < FirstAttemptsQueued[j].id)
    /\ []((batchLeft > 0 \/ batchRet # "none")
             => batchLeft + (nextJob - 1) = MaxSliceLen)
    /\ [](batchRet = "nil"
             => /\ nextJob = MaxSliceLen + 1
                /\ Cardinality(accepted) + batchDeclined = MaxSliceLen)
    /\ [][batchLeft > 0 /\ batchLeft' # batchLeft
             => /\ batchLeft' = batchLeft - 1
                /\ nextJob' = nextJob + 1
                /\ \/ jobQueue' = jobQueue /\ batchDeclined' = batchDeclined + 1
                   \/ /\ jobQueue' = Append(jobQueue,
                              Job(nextJob, BatchSlice[nextJob], 1))
                      /\ batchDeclined' = batchDeclined]_vars

\* SubmitBatch has returned; a message of the slice was declined and a later
\* message of the slice was accepted.
C35_Witness ==
    /\ batchRet = "nil"
    /\ \E i \in 1..MaxSliceLen : \E j \in (i + 1)..MaxSliceLen :
          i \notin accepted /\ j \in accepted

\* C36: SubmitMessage on a manager that has not been started is accepted
\* while the job queue has room, up to 2 x BatchSize jobs, and counted in
\* jobs_submitted; the jobs accepted this way stay in the queue, and after a
\* later Start each of them is processed.
C36_AcceptedBeforeStartProcessed ==
    /\ [](~started
             => /\ Len(jobQueue) <= 2 * config.BatchSize
                /\ {job.id : job \in Range(jobQueue)} = accepted
                /\ Len(jobQueue) = Cardinality(accepted)
                /\ \A job \in Range(jobQueue) : job.attempt = 1
                /\ metrics.jobsSubmitted = Cardinality(accepted))
    /\ [][(~started /\ nextJob' # nextJob
               /\ Len(jobQueue) < 2 * config.BatchSize)
             => /\ jobQueue' = Append(jobQueue, jobQueue'[Len(jobQueue')])
                /\ jobQueue'[Len(jobQueue')].id = nextJob
                /\ accepted' = accepted \cup {nextJob}
                /\ lastSubmit'.ret = "enqueued"]_vars
    /\ \A id \in JobIds :
          (started /\ id \in accepted) ~> (results[id] # << >>)

\* The queue of a manager that has not been started was filled to its
\* capacity; the manager has been started since, and every job accepted has
\* a result.
C36_Witness ==
    /\ started
    /\ Cardinality(accepted) = 2 * config.BatchSize
    /\ \A id \in accepted : results[id] # << >>

\* C37: the job queue and the result queue are each closed at most once.  No
\* Stop closes a queue that is closed already, and a Stop called once the
\* queues are closed returns at the test of m.started without effect: it
\* does not go on to cancel, to signal the workers and to close.
C37_QueuesClosedOnce ==
    /\ [](panicked # "close of closed channel")
    /\ [][(jobQueueClosed /\ stopPc \in {"idle", "returned"})
             => stopPc' \in {"idle", "returned"}]_vars
====
